---- MODULE Spec2Model ----
(***************************************************************************)
(* A model of the reconciliation engine of adb-syncer                      *)
(* (src/core/sync_engine.py) together with the plugin contract             *)
(* (src/plugins/base_plugin.py) it consults, and of the part of the main   *)
(* window (src/ui/main_window.py) that queues and starts the runs.         *)
(*                                                                         *)
(* These specifications are given:                                         *)
(*   CompareSpec  SyncEngine._compare_files applied to every pair of       *)
(*                inventories over ComparePaths, every direction and       *)
(*                every plugin / conflict_callback configuration;          *)
(*   Spec         SyncEngine.sync called MaxRuns times in succession on    *)
(*                one local tree and one device tree over RunPaths:        *)
(*                collection, comparison, the directory pre-pass, the      *)
(*                copy loop and the return of the statistics;              *)
(*   FilterSpec   one call of sync() under every extension filter, age     *)
(*                filter and on_file_filter hook, on trees over            *)
(*                FilterPaths;                                             *)
(*   FaultSpec    one call of sync() in an environment that fails: roots   *)
(*                missing, listing failing, copies failing, plugin hooks   *)
(*                raising, and a stop requested from another thread;       *)
(*   DirSpec      one call of sync() on trees with a subdirectory, for the *)
(*                directory pre-pass and the device listing;               *)
(*   StopSpec     calls of sync() in succession on one engine while a     *)
(*                stop may be requested;                                   *)
(*   UndatedSpec  one call of sync() on device entries whose date ls       *)
(*                printed in a form list_directory cannot parse;           *)
(*   WindowSpec   MainWindow: sync requests, auto-sync on device arrival,  *)
(*                deletions of pipelines and the ends of runs, over three  *)
(*                pipelines;                                               *)
(*   QueueLiveSpec  the same where every started run ends and every        *)
(*                signal reaches its slot (weak fairness);                 *)
(*   CooldownSpec auto-sync alone, the device found again within the       *)
(*                cooldown or after it;                                    *)
(*   PathCheckSpec  the path checks of the cards: refreshes, pipelines     *)
(*                added and deleted, workers ending;                       *)
(*   DeviceSpec   the window with two devices and runs that issue adb      *)
(*                commands while check_device polls.                       *)
(***************************************************************************)
EXTENDS Integers, Sequences, FiniteSets, TLC

\* ---------------------------------------------------------------- bounds
\* Modification times lie in the minutes 1..MaxMinute.
MaxMinute == 2
\* Number of successive calls of sync() in Spec.
MaxRuns == 2

\* -------------------------------------------------------------- constants
\* _is_same_file aligns both timestamps with "// 60".
SecondsPerMinute == 60
\* sync(): one day of pipeline['sync_days'] is "24 * 3600" seconds.
DaySeconds == 24 * 3600

\* ------------------------------------------------------------ input sets
\* Relative paths of the inventories handed to _compare_files in CompareSpec.
ComparePaths == {"a.txt", "b.txt"}
\* Relative paths of the two trees in Spec: one file directly under the
\* root and one file in the subdirectory "d".
RunPaths == {"a.txt", "d/c.txt"}
\* Paths of the specification of the directory pre-pass: two files share
\* the subdirectory "d".
DirPaths == {"a.txt", "d/c.txt", "d/f.txt"}
\* Relative paths of the two trees in FilterSpec: two extensions, one of
\* them written in upper case.
FilterPaths == {"a.txt", "e.TMP"}
Paths == ComparePaths \cup RunPaths \cup FilterPaths \cup DirPaths
\* The order in which os.walk and "ls -la" are taken to yield the entries.
PathSeq == <<"a.txt", "b.txt", "d/c.txt", "d/f.txt", "e.TMP">>

\* File sizes. The engine only ever tests two sizes for equality
\* (_is_same_file), so two values give every case.
Sizes == {1, 2}
Minutes == 1..MaxMinute
\* os.stat gives the local mtime to the second (and finer): the first and
\* the last second of each minute.
LocalTimes == {SecondsPerMinute * m + s : m \in Minutes, s \in {0, SecondsPerMinute - 1}}
\* list_directory parses "%Y-%m-%d %H:%M": a device mtime is a whole minute.
DeviceTimes == {SecondsPerMinute * m : m \in Minutes}

Directions == {"local_to_device", "device_to_local", "bidirectional"}
\* pipeline['plugin']: "none" no plugin instance; "base" a BasePlugin subclass
\* that does not override on_conflict (DateIntervalPlugin); "custom" a
\* subclass that overrides on_conflict and whichever other hook it likes.
Plugins == {"none", "base", "custom"}
\* What a conflict hook may do when called: return one of the three
\* decisions, or raise.
Decisions == {"local", "device", "skip"}
HookOutcomes == Decisions \cup {"raise"}

\* Python's None for a dict.get miss, and for the target_path of an upload.
NoFile == [none |-> TRUE]
NoneTarget == "None"
Absent == [absent |-> TRUE]

local_root == "L"
device_root == "/sdcard/D"

\* What plugin.on_file_filter may do when called: return True, return False,
\* or raise.
FilterOutcomes == {"accept", "reject", "raise"}
\* pipeline['sync_days'] as the pipeline dialog stores it (0 = all files).
SyncDays == {0, 1}
\* What "ls -la device_path" may meet: output and exit code 0, an exit code
\* other than 0, or an AdbError raised by _run_adb (timeout, no device).
Listings == {"ok", "nonzero", "exception"}

VARIABLES
    local_fs,          \* local tree: path -> Absent or [size, mtime]
    device_fs,         \* device tree: path -> Absent or [size, mtime]
    device_dirs,       \* directories existing on the device ("" is the root)
    direction,         \* pipeline['direction']
    plugin,            \* the plugin instance of the run (see Plugins)
    conflict_callback, \* TRUE iff sync() was given a conflict_callback
    pc,                \* position inside sync()
    run,               \* number of the current call of sync()
    local_files,       \* result of _collect_local_files
    device_files,      \* result of _collect_device_files
    operations,        \* result of _compare_files
    conflict_log,      \* conflict resolutions of this run, in order
    idx,               \* index of the copy loop
    stats,             \* the stats dict
    all_ok,            \* no earlier run raised and every copy so far succeeded
    include_ext,       \* pipeline['include_extensions']
    exclude_ext,       \* pipeline['exclude_extensions']
    threshold,         \* the time threshold computed from pipeline['sync_days']
    hook_answers,      \* what the run's conflict hook does, per path, when called
    sync_days,         \* pipeline['sync_days']
    now,               \* the last value read from time.time()
    filter_answers,    \* what plugin.on_file_filter does, per path, when called
    filter_calls,      \* the calls of on_file_filter of this run, in order
    env,               \* how the file systems, adb and the plugin's other hooks
                       \* answer in this run (see Environments)
    stop_requested,    \* SyncEngine.stop_requested
    stop_run,          \* the run during which stop_requested was set, 0 if none
    raised,            \* the exception that left sync(), "none" if none did
    adb_calls,         \* adb commands issued by this run, per kind
    trace,             \* what this run did that others see, in order: adb
                       \* commands, lifecycle hooks, progress callbacks and
                       \* the signals of the SyncThread (see Hook, Adb, ...)
    \* --- the main window (src/ui/main_window.py)
    pipelines,         \* config.pipelines: the pipelines by name, in list order
    sync_queue,        \* MainWindow.sync_queue; an entry is the index queued,
                       \* with the number of the request for reference
    sync_running,      \* MainWindow._sync_running
    sync_thread_index, \* MainWindow.sync_thread.index, NoIndex before the first run
    threads,           \* the SyncThreads started whose finished / error signal
                       \* has not been handled yet
    current_device,    \* AdbManager.current_device
    last_device_serial,   \* MainWindow.last_device_serial
    last_auto_sync_time,  \* MainWindow.last_auto_sync_time, by list index
    auto_enqueued,     \* by pipeline: when trigger_auto_sync last queued it, 0 if never
    path_checks,       \* by list index: the state of the thread recorded in
                       \* MainWindow.path_check_threads ("none": no entry), and the
                       \* number of running path-check threads of that index that
                       \* the dict no longer records
    ui_now,            \* time.time() as trigger_auto_sync last read it
    polls,             \* number of calls of check_device that found a new device
    requests,          \* number of entries put into sync_queue so far
    started,           \* the requests for which a SyncThread was started, in order:
                       \* the pipeline requested and the pipeline handed to the thread
    removed,           \* requests taken out of sync_queue by on_delete_requested
    skipped            \* requests dropped by _start_next_sync: index out of range

engine_vars == <<local_fs, device_fs, device_dirs, direction, plugin, conflict_callback,
                 pc, run, local_files, device_files, operations, conflict_log, idx,
                 stats, all_ok, include_ext, exclude_ext, threshold, hook_answers,
                 sync_days, now, filter_answers, filter_calls, env, stop_requested,
                 stop_run,
                 raised, adb_calls, trace>>

ui_vars == <<pipelines, sync_queue, sync_running, sync_thread_index, threads,
             current_device, last_device_serial, last_auto_sync_time, auto_enqueued,
             path_checks, ui_now, polls, requests, started, removed, skipped>>

vars == <<engine_vars, ui_vars>>

\* What no step of sync() changes: the pipeline, the callbacks, the hooks
\* and the environment.
pipeline_vars == <<direction, plugin, conflict_callback, include_ext, exclude_ext,
                   hook_answers, sync_days, filter_answers, env>>

\* ------------------------------------------------------------- helpers
MaxOf(S) == CHOOSE x \in S : \A y \in S : y <= x

RECURSIVE SeqOfSet(_)
SeqOfSet(S) == IF S = {} THEN <<>>
               ELSE LET x == CHOOSE y \in S : TRUE IN <<x>> \o SeqOfSet(S \ {x})

\* All orders in which a set can be iterated.
Orderings(S) == {f \in [1..Cardinality(S) -> S] : \A i, j \in 1..Cardinality(S) : f[i] = f[j] => i = j}

DirName(p) == IF p \in {"d/c.txt", "d/f.txt"} THEN "d" ELSE ""

LocalRec(p, f) == [rel_path |-> p, full_path |-> local_root \o "/" \o p,
                   mtime |-> f.mtime, size |-> f.size]
DeviceRec(p, f) == [rel_path |-> p, mtime |-> f.mtime, size |-> f.size,
                    full_device_path |-> device_root \o "/" \o p]

\* {f['rel_path']: f for f in files}[p], or None: the last record wins.
DictGet(files, p) ==
    LET hits == {i \in 1..Len(files) : files[i].rel_path = p}
    IN IF hits = {} THEN NoFile ELSE files[MaxOf(hits)]

DictKeySet(files) == {files[i].rel_path : i \in 1..Len(files)}

\* The keys of the dict in insertion order.
RECURSIVE DictKeys(_)
DictKeys(files) ==
    IF files = <<>> THEN <<>>
    ELSE LET rest == DictKeys(Tail(files))
             k == Head(files).rel_path
         IN <<k>> \o SelectSeq(rest, LAMBDA q : q # k)

\* ------------------------------------------------ _is_same_file (227-234)
\* Mutant of IsSameFile: the timestamps are compared to the second.
IsSameFile_ExactSecond(local_info, device_info) ==
    IF local_info.size # device_info.size THEN FALSE
    ELSE local_info.mtime = device_info.mtime

IsSameFile(local_info, device_info) ==
    IF local_info.size # device_info.size THEN FALSE
    ELSE (local_info.mtime \div SecondsPerMinute) = (device_info.mtime \div SecondsPerMinute)

\* ------------------------------------------------ _compare_files (236-297)
UploadOp(lf) == [op |-> "upload", file_info |-> lf, target_path |-> NoneTarget]
DownloadOp(df) == [op |-> "download", file_info |-> df, target_path |-> df.full_device_path]

NoResult == [operations |-> <<>>, log |-> <<>>, raised |-> FALSE]
OpsResult(ops) == [operations |-> ops, log |-> <<>>, raised |-> FALSE]

\* Mutant of PushPath: ">=" for ">" on line 251.
PushPath_NewerOrEqual(lf, df) ==
    IF df = NoFile THEN <<UploadOp(lf)>>
    ELSE IF IsSameFile(lf, df) THEN <<>>
    ELSE IF lf.mtime >= df.mtime THEN <<UploadOp(lf)>>
    ELSE <<>>

\* One iteration of the local_to_device loop (lines 245-253).
PushPath(lf, df) ==
    IF df = NoFile THEN <<UploadOp(lf)>>
    ELSE IF IsSameFile(lf, df) THEN <<>>
    ELSE IF lf.mtime > df.mtime THEN <<UploadOp(lf)>>
    ELSE <<>>

\* Mutant of PullPath: ">=" for ">" on line 263.
PullPath_NewerOrEqual(lf, df) ==
    IF lf = NoFile THEN <<DownloadOp(df)>>
    ELSE IF IsSameFile(lf, df) THEN <<>>
    ELSE IF df.mtime >= lf.mtime THEN <<DownloadOp(df)>>
    ELSE <<>>

\* Mutant of PullPath: a file the local side lacks is not downloaded.
PullPath_MissesNew(lf, df) ==
    IF lf = NoFile THEN <<>>
    ELSE IF IsSameFile(lf, df) THEN <<>>
    ELSE IF df.mtime > lf.mtime THEN <<DownloadOp(df)>>
    ELSE <<>>

\* One iteration of the device_to_local loop (lines 257-264).
PullPath(lf, df) ==
    IF lf = NoFile THEN <<DownloadOp(df)>>
    ELSE IF IsSameFile(lf, df) THEN <<>>
    ELSE IF df.mtime > lf.mtime THEN <<DownloadOp(df)>>
    ELSE <<>>

RECURSIVE LocalToDeviceOps(_, _, _)
LocalToDeviceOps(keys, lfs, dfs) ==
    IF keys = <<>> THEN <<>>
    ELSE PushPath(DictGet(lfs, Head(keys)), DictGet(dfs, Head(keys)))
         \o LocalToDeviceOps(Tail(keys), lfs, dfs)

RECURSIVE DeviceToLocalOps(_, _, _)
DeviceToLocalOps(keys, lfs, dfs) ==
    IF keys = <<>> THEN <<>>
    ELSE PullPath(DictGet(lfs, Head(keys)), DictGet(dfs, Head(keys)))
         \o DeviceToLocalOps(Tail(keys), lfs, dfs)

\* hasattr(plugin, 'on_conflict'): BasePlugin defines on_conflict, and the
\* PluginManager only instantiates subclasses of BasePlugin, so every plugin
\* instance has the attribute.
HasOnConflict(plg) == plg \in {"base", "custom"}

\* plugin.on_conflict(lf, df, context): the inherited BasePlugin.on_conflict
\* returns 'skip'; an overriding hook does what it likes (answer).
PluginOnConflict(plg, answer) == IF plg = "base" THEN "skip" ELSE answer

\* Lines 279-283: who decides the conflict, and with what outcome.
ResolveConflict(plg, cb, answer) ==
    IF plg # "none" /\ HasOnConflict(plg)
    THEN [by |-> "plugin", outcome |-> PluginOnConflict(plg, answer)]
    ELSE IF cb THEN [by |-> "callback", outcome |-> answer]
    ELSE [by |-> "default", outcome |-> "skip"]

\* Mutant of DecisionOps: the two decisions are exchanged.
DecisionOps_Exchanged(decision, lf, df) ==
    IF decision = "local" THEN <<DownloadOp(df)>>
    ELSE IF decision = "device" THEN <<UploadOp(lf)>>
    ELSE <<>>

\* Lines 284-290: the decision applied.
DecisionOps(decision, lf, df) ==
    IF decision = "local" THEN <<UploadOp(lf)>>
    ELSE IF decision = "device" THEN <<DownloadOp(df)>>
    ELSE <<>>

\* Lines 277-290: the branch taken when the device copy is strictly newer.
ConflictPath(rel_path, lf, df, plg, cb, answer) ==
    LET r == ResolveConflict(plg, cb, answer)
        entry == [rel_path |-> rel_path, by |-> r.by, outcome |-> r.outcome]
    IN IF r.outcome = "raise"
       THEN [operations |-> <<>>, log |-> <<entry>>, raised |-> TRUE]
       ELSE [operations |-> DecisionOps(r.outcome, lf, df), log |-> <<entry>>,
             raised |-> FALSE]

\* Mutant of BidirPath: a newer local copy is put to the conflict
\* resolution as well ("!=" for "<" on line 277, tested first).
BidirPath_LocalNewerConflict(rel_path, lf, df, plg, cb, answer) ==
    IF lf # NoFile /\ df # NoFile
    THEN IF IsSameFile(lf, df) THEN NoResult
         ELSE IF lf.mtime # df.mtime THEN ConflictPath(rel_path, lf, df, plg, cb, answer)
         ELSE NoResult
    ELSE IF lf # NoFile THEN OpsResult(<<UploadOp(lf)>>)
    ELSE IF df # NoFile THEN OpsResult(<<DownloadOp(df)>>)
    ELSE NoResult

\* Mutant of BidirPath: "<=" for "<" on line 277.
BidirPath_TieConflict(rel_path, lf, df, plg, cb, answer) ==
    IF lf # NoFile /\ df # NoFile
    THEN IF IsSameFile(lf, df) THEN NoResult
         ELSE IF lf.mtime > df.mtime THEN OpsResult(<<UploadOp(lf)>>)
         ELSE IF lf.mtime <= df.mtime THEN ConflictPath(rel_path, lf, df, plg, cb, answer)
         ELSE NoResult
    ELSE IF lf # NoFile THEN OpsResult(<<UploadOp(lf)>>)
    ELSE IF df # NoFile THEN OpsResult(<<DownloadOp(df)>>)
    ELSE NoResult

\* Mutant of BidirPath: ">=" for ">" on line 275.
BidirPath_TieUpload(rel_path, lf, df, plg, cb, answer) ==
    IF lf # NoFile /\ df # NoFile
    THEN IF IsSameFile(lf, df) THEN NoResult
         ELSE IF lf.mtime >= df.mtime THEN OpsResult(<<UploadOp(lf)>>)
         ELSE IF lf.mtime < df.mtime THEN ConflictPath(rel_path, lf, df, plg, cb, answer)
         ELSE NoResult
    ELSE IF lf # NoFile THEN OpsResult(<<UploadOp(lf)>>)
    ELSE IF df # NoFile THEN OpsResult(<<DownloadOp(df)>>)
    ELSE NoResult

\* One iteration of the bidirectional loop (lines 269-295).
BidirPath(rel_path, lf, df, plg, cb, answer) ==
    IF lf # NoFile /\ df # NoFile
    THEN IF IsSameFile(lf, df) THEN NoResult
         ELSE IF lf.mtime > df.mtime THEN OpsResult(<<UploadOp(lf)>>)
         ELSE IF lf.mtime < df.mtime THEN ConflictPath(rel_path, lf, df, plg, cb, answer)
         ELSE NoResult
    ELSE IF lf # NoFile THEN OpsResult(<<UploadOp(lf)>>)
    ELSE IF df # NoFile THEN OpsResult(<<DownloadOp(df)>>)
    ELSE NoResult

\* The bidirectional loop body applied to the paths of order, one after the
\* other; an exception raised by a hook ends the loop.
RECURSIVE BidirLoop(_, _, _, _, _, _)
BidirLoop(order, lfs, dfs, plg, cb, answers) ==
    IF order = <<>> THEN NoResult
    ELSE LET p == Head(order)
             r == BidirPath(p, DictGet(lfs, p), DictGet(dfs, p), plg, cb, answers[p])
         IN IF r.raised THEN r
            ELSE LET rest == BidirLoop(Tail(order), lfs, dfs, plg, cb, answers)
                 IN [operations |-> r.operations \o rest.operations,
                     log |-> r.log \o rest.log,
                     raised |-> rest.raised]

\* Mutant of BidirectionalOps: the keys of both dicts are chained in a list
\* instead of being united in a set.
BidirectionalOps_ChainedKeys(order, lfs, dfs, plg, cb, answers) ==
    BidirLoop(DictKeys(lfs) \o DictKeys(dfs), lfs, dfs, plg, cb, answers)

\* Lines 267-295: the loop over all_paths = set(local keys) | set(device
\* keys), in the iteration order of the set.
BidirectionalOps(order, lfs, dfs, plg, cb, answers) ==
    BidirLoop(order, lfs, dfs, plg, cb, answers)

\* _compare_files. order: the iteration order of the set all_paths;
\* answers: what a conflict hook does when called for a path.
CompareFiles(lfs, dfs, dir, plg, cb, order, answers) ==
    IF dir = "local_to_device"
    THEN OpsResult(LocalToDeviceOps(DictKeys(lfs), lfs, dfs))
    ELSE IF dir = "device_to_local"
    THEN OpsResult(DeviceToLocalOps(DictKeys(dfs), lfs, dfs))
    ELSE BidirectionalOps(order, lfs, dfs, plg, cb, answers)

\* Lines 84-95: the parent directories of the queued uploads.
UploadDirs(ops) == {DirName(ops[i].file_info.rel_path) :
                        i \in {j \in 1..Len(ops) : ops[j].op = "upload"}}

\* ------------------------------------------------------------ actions
\* The iteration orders of set(local_dict.keys()) | set(device_dict.keys());
\* the two one-way loops iterate a dict and read no set.
IterationOrders(lfs, dfs, dir) ==
    IF dir \in {"local_to_device", "device_to_local"}
    THEN {SeqOfSet(DictKeySet(lfs) \cup DictKeySet(dfs))}
    ELSE Orderings(DictKeySet(lfs) \cup DictKeySet(dfs))

\* What the conflict hooks of the environment do, per path, when they are
\* called: only an overriding plugin hook or a conflict_callback is code of
\* the environment, and only the bidirectional loop calls one. The hooks
\* are deterministic: the same hook gives the same answer in every run.
HookAnswers(asked, dir, plg, cb) ==
    LET live == IF dir \notin {"local_to_device", "device_to_local"} /\ (plg = "custom" \/ cb)
                THEN asked ELSE {}
    IN {[p \in Paths |-> IF p \in live THEN a[p] ELSE "skip"] : a \in [live -> HookOutcomes]}

ZeroStats == [upload |-> 0, download |-> 0, skip |-> 0, error |-> 0]
NoCalls == [ls |-> 0, push |-> 0, pull |-> 0]

\* The entries of trace. A lifecycle hook of the plugin was called (ok: it
\* returned without raising).
Hook(name, ok) == [kind |-> "hook", name |-> name, arg |-> "", idx |-> 0, total |-> 0, ok |-> ok]
\* An adb command was issued for a directory or for operation i of the plan
\* (ok: what AdbManager returned to the engine).
Adb(name, arg, i, ok) == [kind |-> "adb", name |-> name, arg |-> arg, idx |-> i, total |-> 0, ok |-> ok]
\* sync(), lines 103-104: progress_callback(f"{op} {rel_path}", idx, total).
Progress(op, p, i, total) ==
    [kind |-> "progress", name |-> "stats_updated", arg |-> op \o " " \o p,
     idx |-> i, total |-> total, ok |-> TRUE]
\* A signal of the SyncThread other than stats_updated.
Signal(name) == [kind |-> "signal", name |-> name, arg |-> "", idx |-> 0, total |-> 0, ok |-> TRUE]

\* Mutant of RunSignals: finished is emitted whenever run() ends.
RunSignals_FinishedAlways(sync_raised) ==
    (IF sync_raised THEN <<Signal("error")>> ELSE <<>>) \o <<Signal("finished")>>

\* SyncThread.run: finished(index, stats) when engine.sync returned,
\* error(index, str(e)) when it raised.
RunSignals(sync_raised) ==
    IF sync_raised THEN <<Signal("error")>> ELSE <<Signal("finished")>>

\* The answers of the environment of one run: os.path.isdir(local_path),
\* the result of adb.mkdir, what "ls -la" meets, and whether the plugin's
\* on_path_resolve, on_sync_end and on_sync_error raise when called.
Environments == [local_is_dir : BOOLEAN, mkdir_ok : BOOLEAN, listing : Listings,
                 path_resolve_raises : BOOLEAN, sync_end_raises : BOOLEAN,
                 sync_error_raises : BOOLEAN]
\* The environment in which nothing fails.
Benign == [local_is_dir |-> TRUE, mkdir_ok |-> TRUE, listing |-> "ok",
           path_resolve_raises |-> FALSE, sync_end_raises |-> FALSE,
           sync_error_raises |-> FALSE]

\* BasePlugin.on_path_resolve, on_sync_end and on_sync_error return without
\* raising; an overriding hook raises when the environment says so.
HookRaises(plg, says) == plg = "custom" /\ says

\* sync(), lines 133-137: the exception cause is logged, plugin.on_sync_error
\* is called and the exception is raised again; an exception of
\* on_sync_error leaves sync() in its place.
Leaves(cause, plg, e) ==
    IF plg # "none" /\ HookRaises(plg, e.sync_error_raises) THEN "on_sync_error" ELSE cause

\* sync(), lines 133-137, seen from outside: on_sync_error is called if
\* there is a plugin, then the exception reaches SyncThread.run.
ErrorTail(plg, e) ==
    (IF plg # "none" THEN <<Hook("on_sync_error", ~HookRaises(plg, e.sync_error_raises))>>
     ELSE <<>>) \o RunSignals(TRUE)

\* sync(), lines 84-95: the directory pre-pass. For every parent directory
\* of an upload, once: file_exists, and mkdir if it does not exist (the
\* result of mkdir is not looked at). The set is walked in SeqOfSet order.
RECURSIVE PrePassOf(_, _, _)
PrePassOf(todo, dirs, mkdir_ok) ==
    IF todo = <<>> THEN <<>>
    ELSE LET d == Head(todo)
         IN <<Adb("file_exists", d, 0, d \in dirs)>>
            \o (IF d \in dirs THEN <<>> ELSE <<Adb("mkdir", d, 0, mkdir_ok)>>)
            \o PrePassOf(Tail(todo), dirs, mkdir_ok)

\* Mutant of PrePass: the directory is checked for every upload.
PrePass_PerUpload(ops, dirs, mkdir_ok) ==
    LET seen[i \in 0..Len(ops)] ==
            IF i = 0 THEN <<>>
            ELSE seen[i - 1] \o (IF ops[i].op = "upload"
                                 THEN <<DirName(ops[i].file_info.rel_path)>> ELSE <<>>)
    IN PrePassOf(seen[Len(ops)], dirs, mkdir_ok)

PrePass(ops, dirs, mkdir_ok) ==
    IF ops = <<>> THEN <<>> ELSE PrePassOf(SeqOfSet(UploadDirs(ops)), dirs, mkdir_ok)

\* sync(), lines 80-95: _compare_files, then the directory pre-pass. An
\* exception of a conflict hook leaves sync through the except clause.
SyncCompare ==
    /\ pc = "collected"
    /\ \E order \in IterationOrders(local_files, device_files, direction) :
          LET r == CompareFiles(local_files, device_files, direction, plugin,
                                conflict_callback, order, hook_answers)
          IN /\ conflict_log' = r.log
             /\ operations' = IF r.raised THEN <<>> ELSE r.operations
             /\ pc' = IF r.raised THEN "error" ELSE "executing"
             /\ raised' = IF r.raised THEN Leaves("on_conflict", plugin, env) ELSE "none"
             /\ device_dirs' = IF r.raised \/ ~env.mkdir_ok THEN device_dirs
                               ELSE device_dirs \cup UploadDirs(r.operations)
             /\ trace' = trace \o (IF r.raised THEN ErrorTail(plugin, env)
                                    ELSE PrePass(r.operations, device_dirs, env.mkdir_ok))
    /\ idx' = 0
    /\ all_ok' = (all_ok /\ pc' # "error")
    /\ UNCHANGED <<local_fs, device_fs, pipeline_vars, run, local_files, device_files,
                   stats, threshold, now, filter_calls, stop_requested, stop_run,
                   adb_calls>>
    /\ UNCHANGED ui_vars

\* ------------------------------------------- inventory collection
\* os.path.splitext(name)[1]: the extension as the file name spells it.
SplitExt(p) == IF p = "e.TMP" THEN ".TMP" ELSE ".txt"

\* str.lower() on the extensions of the model.
Lower(s) == IF s = ".TMP" THEN ".tmp" ELSE s

\* Mutant of ExtensionOf: the extension is not lowered.
ExtensionOf_NoLower(p) == SplitExt(p)

\* ext = os.path.splitext(file)[1].lower()
ExtensionOf(p) == Lower(SplitExt(p))

\* sync(), lines 63-69: the time threshold, t being time.time().
Threshold(days, t) == IF days > 0 THEN t - days * DaySeconds ELSE 0

\* Mutant of TooOld: "<=" for "<".
TooOld_OrEqual(mtime, thr) == thr > 0 /\ mtime <= thr

\* Lines 153 and 200: the time filter.
TooOld(mtime, thr) == thr > 0 /\ mtime < thr

\* plugin.on_file_filter: BasePlugin.on_file_filter returns True; an
\* overriding hook does what it likes (answer).
PluginFileFilter(plg, answer) == IF plg = "base" THEN "accept" ELSE answer

Rejected == [keep |-> FALSE, called |-> FALSE, raised |-> FALSE]
Kept == [keep |-> TRUE, called |-> FALSE, raised |-> FALSE]
Asked(a) == [keep |-> a = "accept", called |-> TRUE, raised |-> a = "raise"]

\* Mutant of FilterFile: the plugin is asked first, the time filter and the
\* extension filter after it.
FilterFile_HookFirst(p, mtime, inc, exc, thr, plg, answer) ==
    LET a == IF plg # "none" THEN Asked(PluginFileFilter(plg, answer)) ELSE Kept
    IN IF a.raised \/ ~a.keep THEN a
       ELSE IF TooOld(mtime, thr) THEN [a EXCEPT !.keep = FALSE]
       ELSE IF inc # {} /\ ExtensionOf(p) \notin inc THEN [a EXCEPT !.keep = FALSE]
       ELSE IF exc # {} /\ ExtensionOf(p) \in exc THEN [a EXCEPT !.keep = FALSE]
       ELSE a

\* Lines 152-172 and 200-216: the time filter, then the extension filter,
\* then the plugin's on_file_filter (hasattr is true of every plugin).
FilterFile(p, mtime, inc, exc, thr, plg, answer) ==
    IF TooOld(mtime, thr) THEN Rejected
    ELSE IF inc # {} /\ ExtensionOf(p) \notin inc THEN Rejected
    ELSE IF exc # {} /\ ExtensionOf(p) \in exc THEN Rejected
    ELSE IF plg # "none" THEN Asked(PluginFileFilter(plg, answer))
    ELSE Kept

NoFiles == [files |-> <<>>, calls |-> <<>>, raised |-> FALSE]

\* One more candidate f in front of the result rest of the candidates after
\* it: an exception of the hook ends the collection.
Collected(f, side, rec, rest) ==
    LET call == IF f.called THEN <<[side |-> side, rel_path |-> rec.rel_path]>> ELSE <<>>
    IN IF f.raised THEN [files |-> <<>>, calls |-> call, raised |-> TRUE]
       ELSE [files |-> (IF f.keep THEN <<rec>> ELSE <<>>) \o rest.files,
             calls |-> call \o rest.calls,
             raised |-> rest.raised]

\* _collect_local_files: os.walk visits every file of the tree, the files
\* of subdirectories included.
RECURSIVE CollectLocalFiles(_, _, _, _, _, _, _)
CollectLocalFiles(fs, inc, exc, thr, plg, answers, i) ==
    IF i > Len(PathSeq) THEN NoFiles
    ELSE LET p == PathSeq[i]
         IN IF p \in DOMAIN fs /\ fs[p] # Absent
            THEN LET f == FilterFile(p, fs[p].mtime, inc, exc, thr, plg, answers[p])
                 IN Collected(f, "local", LocalRec(p, fs[p]),
                              IF f.raised THEN NoFiles
                              ELSE CollectLocalFiles(fs, inc, exc, thr, plg, answers, i + 1))
            ELSE CollectLocalFiles(fs, inc, exc, thr, plg, answers, i + 1)

\* The output of "ls -la device_path": one entry per file and per
\* directory directly under the device root (not recursive).
RECURSIVE ListFiles(_, _)
ListFiles(fs, i) ==
    IF i > Len(PathSeq) THEN <<>>
    ELSE LET p == PathSeq[i]
         IN (IF p \in DOMAIN fs /\ fs[p] # Absent /\ DirName(p) = ""
             THEN <<[name |-> p, is_dir |-> FALSE, size |-> fs[p].size, mtime |-> fs[p].mtime]>>
             ELSE <<>>)
            \o ListFiles(fs, i + 1)

\* AdbManager.list_files_recursive(device_path): where find knows -printf,
\* one record per file below device_path, rel_path relative to it; the
\* empty list otherwise. No step of sync() calls it.
RECURSIVE ListFilesRecursive(_, _, _)
ListFilesRecursive(fs, supported, i) ==
    IF ~supported \/ i > Len(PathSeq) THEN <<>>
    ELSE LET p == PathSeq[i]
         IN (IF p \in DOMAIN fs /\ fs[p] # Absent
             THEN <<[rel_path |-> p, size |-> fs[p].size, mtime |-> fs[p].mtime]>>
             ELSE <<>>)
            \o ListFilesRecursive(fs, supported, i + 1)

\* AdbManager.list_directory(device_path): _run_adb may raise AdbError; an
\* exit code other than 0 gives the empty list.
ListDirectory(fs, dirs, listing) ==
    IF listing = "exception" THEN [entries |-> <<>>, raised |-> TRUE]
    ELSE IF listing = "nonzero" THEN [entries |-> <<>>, raised |-> FALSE]
    ELSE [entries |-> ListFiles(fs, 1)
                      \o (IF "d" \in dirs
                          THEN <<[name |-> "d", is_dir |-> TRUE, size |-> 0, mtime |-> 0]>>
                          ELSE <<>>),
          raised |-> FALSE]

\* list_directory, lines 129-135: the mtime of an entry whose date column
\* does not parse as "%Y-%m-%d %H:%M" is None.
NoTime == -1

Undated_Never(e) == FALSE
\* _collect_device_files, lines 195-197: an entry without mtime is passed
\* over before any filter looks at it.
Undated(e) == e.mtime = NoTime

\* _collect_device_files: the entries of list_directory that are no
\* directories and carry a time, filtered like the local files; rel_path is
\* the entry name.
RECURSIVE CollectDeviceFiles(_, _, _, _, _, _)
CollectDeviceFiles(entries, inc, exc, thr, plg, answers) ==
    IF entries = <<>> THEN NoFiles
    ELSE LET e == Head(entries)
         IN IF ~e.is_dir /\ ~Undated(e)
            THEN LET f == FilterFile(e.name, e.mtime, inc, exc, thr, plg, answers[e.name])
                 IN Collected(f, "device", DeviceRec(e.name, e),
                              IF f.raised THEN NoFiles
                              ELSE CollectDeviceFiles(Tail(entries), inc, exc, thr, plg, answers))
            ELSE CollectDeviceFiles(Tail(entries), inc, exc, thr, plg, answers)

\* ------------------------------------------------------- sync(), steps
\* The values time.time() may return when sync() reads it: sync() reads the
\* clock only when sync_days > 0. The one reading puts the threshold of one
\* day at the start of minute MaxMinute.
Nows == {DaySeconds + SecondsPerMinute * MaxMinute}
ClockReadings(days, last) == IF days > 0 THEN Nows ELSE {last}

\* Mutant of SetupError: the local path is not checked.
SetupError_NoLocalCheck(plg, e, dirs) ==
    IF plg # "none" /\ HookRaises(plg, e.path_resolve_raises) THEN "on_path_resolve"
    ELSE IF "" \notin dirs /\ ~e.mkdir_ok THEN "device_path"
    ELSE "none"

\* sync(), lines 46-57: path resolution by the plugin, then the checks of
\* both roots; the exception raised, or "none".
SetupError(plg, e, dirs) ==
    IF plg # "none" /\ HookRaises(plg, e.path_resolve_raises) THEN "on_path_resolve"
    ELSE IF ~e.local_is_dir THEN "local_path"
    ELSE IF "" \notin dirs /\ ~e.mkdir_ok THEN "device_path"
    ELSE "none"

\* sync(), lines 46-57, seen from outside: on_path_resolve if there is a
\* plugin, then file_exists(device_path) and, if it does not exist, mkdir.
SetupTrace(plg, e, dirs) ==
    (IF plg # "none" THEN <<Hook("on_path_resolve", ~HookRaises(plg, e.path_resolve_raises))>>
     ELSE <<>>)
    \o (IF (plg # "none" /\ HookRaises(plg, e.path_resolve_raises)) \/ ~e.local_is_dir
        THEN <<>>
        ELSE <<Adb("file_exists", "", 0, "" \in dirs)>>
             \o (IF "" \in dirs THEN <<>> ELSE <<Adb("mkdir", "", 0, e.mkdir_ok)>>))

\* sync(), lines 28-77: fresh stats, path resolution and the checks of both
\* roots, the threshold, then both inventories are collected. An exception
\* leaves sync() through the except clause.
SyncCollect ==
    /\ pc = "start"
    /\ stats' = ZeroStats
    /\ operations' = <<>>
    /\ conflict_log' = <<>>
    /\ idx' = 0
    /\ LET cause == SetupError(plugin, env, device_dirs)
       IN IF cause # "none"
          THEN /\ pc' = "error"
               /\ raised' = Leaves(cause, plugin, env)
               /\ local_files' = <<>>
               /\ device_files' = <<>>
               /\ filter_calls' = <<>>
               /\ adb_calls' = NoCalls
               /\ trace' = SetupTrace(plugin, env, device_dirs) \o ErrorTail(plugin, env)
               /\ UNCHANGED <<device_dirs, now, threshold>>
          ELSE \E t \in ClockReadings(sync_days, now) :
                 LET thr == Threshold(sync_days, t)
                     l == CollectLocalFiles(local_fs, include_ext, exclude_ext, thr,
                                            plugin, filter_answers, 1)
                     ls == ListDirectory(device_fs, device_dirs \cup {""}, env.listing)
                     d == IF l.raised \/ ls.raised THEN NoFiles
                          ELSE CollectDeviceFiles(ls.entries, include_ext, exclude_ext, thr,
                                                  plugin, filter_answers)
                     cause2 == IF l.raised \/ d.raised THEN "on_file_filter"
                               ELSE IF ls.raised THEN "AdbError"
                               ELSE "none"
                 IN /\ now' = t
                    /\ threshold' = thr
                    /\ device_dirs' = device_dirs \cup {""}
                    /\ local_files' = IF cause2 = "none" THEN l.files ELSE <<>>
                    /\ device_files' = IF cause2 = "none" THEN d.files ELSE <<>>
                    /\ filter_calls' = l.calls \o d.calls
                    /\ adb_calls' = [NoCalls EXCEPT !.ls = IF l.raised THEN 0 ELSE 1]
                    /\ trace' = SetupTrace(plugin, env, device_dirs)
                                 \o (IF l.raised THEN <<>>
                                     ELSE <<Adb("ls", "", 0, ~ls.raised)>>)
                                 \o (IF cause2 = "none" THEN <<>>
                                     ELSE ErrorTail(plugin, env))
                    /\ pc' = IF cause2 = "none" THEN "collected" ELSE "error"
                    /\ raised' = IF cause2 = "none" THEN "none"
                                 ELSE Leaves(cause2, plugin, env)
    /\ all_ok' = (all_ok /\ pc' # "error")
    /\ UNCHANGED <<local_fs, device_fs, pipeline_vars, run, stop_requested, stop_run>>
    /\ UNCHANGED ui_vars

MinuteFloor(t) == (t \div SecondsPerMinute) * SecondsPerMinute

\* adb push of the local file to device_path/rel_path succeeded: the device
\* file has the size of the local file, and its listing shows the local
\* mtime to the minute.
Pushed(dfs, lfs, p) ==
    [dfs EXCEPT ![p] = [size |-> lfs[p].size, mtime |-> MinuteFloor(lfs[p].mtime)]]

\* adb pull of the device file to local_path/rel_path succeeded: the local
\* file has the size of the device file and an mtime t in the same minute.
Pulled(lfs, dfs, p, t) == [lfs EXCEPT ![p] = [size |-> dfs[p].size, mtime |-> t]]

\* sync(), lines 99-102: the copy loop enters the body of operation i.
LoopGoesOn(i, ops, stop) == i < Len(ops) /\ ~stop

\* Mutant of CopyStats: a failed copy is not counted.
CopyStats_ErrorUncounted(st, op, ok) ==
    IF ~ok THEN st
    ELSE IF op = "upload" THEN [st EXCEPT !.upload = @ + 1]
    ELSE [st EXCEPT !.download = @ + 1]

\* sync(), lines 112-127: the counter that one copy increments.
CopyStats(st, op, ok) ==
    IF ~ok THEN [st EXCEPT !.error = @ + 1]
    ELSE IF op = "upload" THEN [st EXCEPT !.upload = @ + 1]
    ELSE [st EXCEPT !.download = @ + 1]

\* sync(), lines 99-127: one iteration of the copy loop: the progress
\* callback, which SyncThread.run sets to stats_updated.emit, then the
\* copy. ok is the result of adb.push / adb.pull (False, or an exception,
\* counts one error).
SyncExecute ==
    /\ pc = "executing"
    /\ LoopGoesOn(idx, operations, stop_requested)
    /\ LET o == operations[idx + 1]
           p == o.file_info.rel_path
       IN \E ok \in BOOLEAN :
            /\ IF o.op = "upload"
               THEN /\ device_fs' = IF ok THEN Pushed(device_fs, local_fs, p) ELSE device_fs
                    /\ local_fs' = local_fs
                    /\ adb_calls' = [adb_calls EXCEPT !.push = @ + 1]
               ELSE /\ \E t \in {u \in LocalTimes : MinuteFloor(u) = MinuteFloor(device_fs[p].mtime)} :
                         local_fs' = IF ok THEN Pulled(local_fs, device_fs, p, t) ELSE local_fs
                    /\ device_fs' = device_fs
                    /\ adb_calls' = [adb_calls EXCEPT !.pull = @ + 1]
            /\ stats' = CopyStats(stats, o.op, ok)
            /\ all_ok' = (all_ok /\ ok)
            /\ trace' = trace \o <<Progress(o.op, p, idx, Len(operations)),
                                   Adb(IF o.op = "upload" THEN "push" ELSE "pull", p, idx, ok)>>
    /\ idx' = idx + 1
    /\ UNCHANGED <<device_dirs, pipeline_vars, pc, run, local_files, device_files,
                   operations, conflict_log, threshold, now, filter_calls,
                   stop_requested, stop_run, raised>>
    /\ UNCHANGED ui_vars

\* sync(), lines 99-102 and 129-139: the loop is over or is left because
\* stop_requested is set; on_sync_end is called inside the try block, then
\* the stats are returned.
SyncEnd ==
    /\ pc = "executing"
    /\ ~LoopGoesOn(idx, operations, stop_requested)
    /\ IF plugin # "none" /\ HookRaises(plugin, env.sync_end_raises)
       THEN /\ pc' = "error"
            /\ raised' = Leaves("on_sync_end", plugin, env)
            /\ trace' = trace \o <<Hook("on_sync_end", FALSE)>> \o ErrorTail(plugin, env)
       ELSE /\ pc' = "done"
            /\ raised' = "none"
            /\ trace' = trace \o (IF plugin # "none" THEN <<Hook("on_sync_end", TRUE)>>
                                    ELSE <<>>)
                               \o RunSignals(FALSE)
    /\ all_ok' = (all_ok /\ pc' # "error")
    /\ UNCHANGED <<local_fs, device_fs, device_dirs, pipeline_vars, run, local_files,
                   device_files, operations, conflict_log, idx, stats, threshold, now,
                   filter_calls, stop_requested, stop_run, adb_calls>>
    /\ UNCHANGED ui_vars

\* The caller calls sync() again with the same pipeline; neither tree has
\* changed in between.
SyncAgain ==
    /\ pc \in {"done", "error"}
    /\ run < MaxRuns
    /\ run' = run + 1
    /\ pc' = "start"
    /\ UNCHANGED <<local_fs, device_fs, device_dirs, pipeline_vars, local_files,
                   device_files, operations, conflict_log, idx, stats, all_ok,
                   threshold, now, filter_calls, stop_requested, stop_run, raised,
                   adb_calls,
                   trace>>
    /\ UNCHANGED ui_vars

\* Another thread sets engine.stop_requested while sync() runs.
RequestStop ==
    /\ pc \in {"start", "collected", "executing"}
    /\ ~stop_requested
    /\ stop_requested' = TRUE
    /\ stop_run' = run
    /\ UNCHANGED <<local_fs, device_fs, device_dirs, pipeline_vars, pc, run, local_files,
                   device_files, operations, conflict_log, idx, stats, all_ok,
                   threshold, now, filter_calls, raised, adb_calls, trace>>
    /\ UNCHANGED ui_vars

\* ------------------------------------------------ the main window
\* The pipelines of the configuration, by name, in list order.
PipelineNames == <<"P", "Q", "R">>
\* The pipelines whose card has the auto-sync box checked.
AutoSyncOn == {"P", "R"}
\* The serials "adb devices" may report.
Serials == {"A", "B"}
\* The device_serial field of each pipeline, "" where none was entered.
DeviceSerial(name) == IF name = "Q" THEN "A" ELSE IF name = "R" THEN "B" ELSE ""
NoDevice == "None"
NoIndex == -1

\* At most MaxRequests entries are put into sync_queue, check_device finds
\* a new device at most MaxPolls times, a run issues at most MaxCommands
\* adb commands.
MaxRequests == 3
MaxPolls == 2
MaxCommands == 1
\* add_pipeline leaves at most MaxStray running path checks of an index
\* without a record.
MaxStray == 1

\* time.time() when the window is built, the period of device_timer and
\* the cooldown of trigger_auto_sync, in seconds.
StartTime == 1000
PollInterval == 5
AutoSyncCooldown == 1800
\* The time between two calls of check_device that find a new device.
PollGaps == {PollInterval, AutoSyncCooldown + PollInterval}

\* MainWindow.__init__: nothing queued, nothing running; check_device has
\* run once, before the list of pipelines was loaded.
WindowInit(pls, dev) ==
    /\ pipelines = pls
    /\ sync_queue = <<>>
    /\ sync_running = FALSE
    /\ sync_thread_index = NoIndex
    /\ threads = {}
    /\ current_device = dev
    /\ last_device_serial = dev
    /\ last_auto_sync_time = [i \in 0..(Len(PipelineNames) - 1) |-> 0]
    /\ auto_enqueued = [i \in 1..Len(PipelineNames) |-> 0]
    /\ path_checks = [i \in 0..(Len(PipelineNames) - 1) |-> [state |-> "none", stray |-> 0]]
    /\ ui_now = StartTime
    /\ polls = 0
    /\ requests = 0
    /\ started = <<>>
    /\ removed = {}
    /\ skipped = {}

\* sync() called without a window: device "A" is selected.
NoWindow == WindowInit(<<>>, "A")

\* AdbManager._run_adb: the command goes to current_device as it is when
\* the command is issued; AdbError if no device is selected.
RunAdb(dev) == [raised |-> dev = NoDevice, serial |-> dev]

\* _start_path_check(widget, index): nothing if the thread recorded for
\* the index is running; else (none recorded, isRunning() false, or
\* RuntimeError because the thread object was destroyed) a new thread is
\* started and recorded. cleanup() tests "thread in path_check_threads",
\* which looks for the thread among the index keys: it never removes.
StartPathCheck(checks, index) ==
    IF checks[index].state = "running" THEN checks
    ELSE [checks EXCEPT ![index].state = "running"]

\* refresh_pipeline_status: without a device every card goes grey; with
\* device dev a path check is started for every card, from index i on,
\* whose pipeline names no serial or names dev.
RECURSIVE RefreshPipelineStatus(_, _, _, _)
RefreshPipelineStatus(checks, pls, dev, i) ==
    IF i >= Len(pls) \/ dev = NoDevice THEN checks
    ELSE IF DeviceSerial(pls[i + 1]) \notin {"", dev}
         THEN RefreshPipelineStatus(checks, pls, dev, i + 1)
         ELSE RefreshPipelineStatus(StartPathCheck(checks, i), pls, dev, i + 1)

\* refresh_pipeline_status_by_index(index): the record of the index is
\* deleted, the old thread being left to itself, and a path check is started.
RefreshPipelineStatusByIndex(checks, index, n) ==
    IF index < 0 \/ index >= n THEN checks
    ELSE StartPathCheck([checks EXCEPT ![index] =
                            [state |-> "none",
                             stray |-> IF @.state = "running" THEN @.stray + 1 ELSE @.stray]],
                        index)

Reverse(q) == [i \in 1..Len(q) |-> q[Len(q) + 1 - i]]
ReqsOf(q) == {q[i].req : i \in 1..Len(q)}
Entry(i, n, pls) == [index |-> i, req |-> n, pipeline |-> pls[i + 1]]

\* _start_next_sync, lines 448-463: entries whose index is out of range are
\* dropped from the head of the queue.
RECURSIVE SkipInvalid(_, _)
SkipInvalid(q, n) ==
    IF q = <<>> THEN <<>>
    ELSE IF Head(q).index < 0 \/ Head(q).index >= n THEN SkipInvalid(Tail(q), n)
    ELSE q

\* Mutant of StartNextSync: _sync_running is not looked at.
StartNextSync_NoGuard(q, running, n) ==
    LET rest == SkipInvalid(q, n)
    IN IF rest = <<>> THEN [queue |-> <<>>, start |-> <<>>]
       ELSE [queue |-> Tail(rest), start |-> <<Head(rest)>>]

\* Mutant of StartNextSync: pop() instead of popleft().
StartNextSync_Lifo(q, running, n) ==
    IF running \/ q = <<>> THEN [queue |-> q, start |-> <<>>]
    ELSE LET rest == Reverse(SkipInvalid(Reverse(q), n))
         IN IF rest = <<>> THEN [queue |-> <<>>, start |-> <<>>]
            ELSE [queue |-> SubSeq(rest, 1, Len(rest) - 1), start |-> <<rest[Len(rest)]>>]

\* _start_next_sync: nothing happens while a run is in progress or the queue
\* is empty; otherwise the first entry with a valid index is taken out to
\* be started. n is len(config.pipelines).
StartNextSync(q, running, n) ==
    IF running \/ q = <<>> THEN [queue |-> q, start |-> <<>>]
    ELSE LET rest == SkipInvalid(q, n)
         IN IF rest = <<>> THEN [queue |-> <<>>, start |-> <<>>]
            ELSE [queue |-> Tail(rest), start |-> <<Head(rest)>>]

\* The call of _start_next_sync that ends a handler, lines 436-488: q,
\* running and live are the queue, _sync_running and the threads as the
\* handler left them, dev is adb.current_device. The SyncThread started
\* holds the pipeline that stands at the index now.
Resume(q, running, live, dev) ==
    LET r == StartNextSync(q, running, Len(pipelines))
    IN /\ sync_queue' = r.queue
       /\ skipped' = skipped \cup (ReqsOf(q) \ (ReqsOf(r.queue) \cup ReqsOf(r.start)))
       /\ IF r.start = <<>>
          THEN /\ sync_running' = running
               /\ threads' = live
               /\ UNCHANGED <<sync_thread_index, started>>
          ELSE LET h == r.start[1]
               IN /\ sync_running' = TRUE
                  /\ sync_thread_index' = h.index
                  /\ threads' = live \cup {[req |-> h.req, index |-> h.index,
                                            pipeline |-> pipelines[h.index + 1],
                                            device |-> dev, cmds |-> <<>>,
                                            state |-> "running"]}
                  /\ started' = Append(started, [req |-> h.req, index |-> h.index,
                                                 requested |-> h.pipeline,
                                                 pipeline |-> pipelines[h.index + 1]])

InQueue(index) == \E k \in 1..Len(sync_queue) : sync_queue[k].index = index

\* on_sync_requested(index), the sync button of card index: refused if the
\* index waits in the queue or is the one running; else queued, and the
\* queue is started.
OnSyncRequested(index) ==
    /\ index \in 0..(Len(pipelines) - 1)
    /\ requests < MaxRequests
    /\ ~InQueue(index)
    /\ ~(sync_running /\ sync_thread_index = index)
    /\ requests' = requests + 1
    /\ Resume(Append(sync_queue, Entry(index, requests + 1, pipelines)),
              sync_running, threads, current_device)
    /\ UNCHANGED <<pipelines, current_device, last_device_serial, last_auto_sync_time,
                   auto_enqueued, path_checks, ui_now, polls, removed>>
    /\ UNCHANGED engine_vars

\* trigger_auto_sync, lines 178-191: every card with the auto box checked
\* whose index was not queued by this function within the last 1800 seconds
\* is appended to the queue. n counts the requests.
RECURSIVE TriggerAutoSync(_, _, _, _, _, _)
TriggerAutoSync(i, q, last, t, n, pls) ==
    IF i >= Len(pls) THEN [queue |-> q, last |-> last, requests |-> n]
    ELSE IF pls[i + 1] \in AutoSyncOn /\ ~(last[i] # 0 /\ t - last[i] <= AutoSyncCooldown)
         THEN TriggerAutoSync(i + 1, Append(q, Entry(i, n + 1, pls)),
                              [last EXCEPT ![i] = t], t, n + 1, pls)
         ELSE TriggerAutoSync(i + 1, q, last, t, n, pls)

\* check_device, a timer callback: found is the first serial that
\* "adb devices" reports, NoDevice if it reports none, "AdbError" if it
\* fails; gap is the time since trigger_auto_sync last read the clock.
\* A new device refreshes the status of the cards, then triggers auto-sync;
\* the refresh after the loss of the device starts no path check.
CheckDevice(found, gap) ==
    /\ IF found \in Serials /\ last_device_serial # found
       THEN LET a == TriggerAutoSync(0, sync_queue, last_auto_sync_time, ui_now + gap,
                                     requests, pipelines)
            IN /\ polls < MaxPolls
               /\ polls' = polls + 1
               /\ ui_now' = ui_now + gap
               /\ a.requests <= MaxRequests
               /\ current_device' = found
               /\ path_checks' = RefreshPipelineStatus(path_checks, pipelines, found, 0)
               /\ last_auto_sync_time' = a.last
               /\ auto_enqueued' =
                     [i \in DOMAIN auto_enqueued |->
                        IF \E k \in (Len(sync_queue) + 1)..Len(a.queue) :
                              a.queue[k].pipeline = PipelineNames[i]
                        THEN ui_now + gap ELSE auto_enqueued[i]]
               /\ requests' = a.requests
               /\ Resume(a.queue, sync_running, threads, found)
       ELSE /\ current_device' = IF found \in Serials THEN current_device
                                 ELSE IF found = "AdbError" \/ last_device_serial # NoDevice
                                      THEN NoDevice
                                 ELSE current_device
            /\ UNCHANGED <<sync_queue, sync_running, sync_thread_index, threads,
                           last_auto_sync_time, auto_enqueued, path_checks, requests,
                           started, skipped, polls, ui_now>>
    /\ last_device_serial' = IF found \in Serials THEN found ELSE NoDevice
    /\ UNCHANGED <<pipelines, removed>>
    /\ UNCHANGED engine_vars

Without(q, index) == SelectSeq(q, LAMBDA e : e.index # index)

\* on_delete_requested(index), answered Yes: the entries with this index
\* leave the queue, the other entries keep their index; the pipeline leaves
\* the configuration and the status of the cards is refreshed. A run in
\* progress goes on.
OnDeleteRequested(index) ==
    /\ index \in 0..(Len(pipelines) - 1)
    /\ sync_queue' = Without(sync_queue, index)
    /\ removed' = removed \cup (ReqsOf(sync_queue) \ ReqsOf(Without(sync_queue, index)))
    /\ pipelines' = SubSeq(pipelines, 1, index) \o SubSeq(pipelines, index + 2, Len(pipelines))
    /\ path_checks' = RefreshPipelineStatus(path_checks, pipelines', current_device, 0)
    /\ UNCHANGED <<sync_running, sync_thread_index, threads, current_device,
                   last_device_serial, last_auto_sync_time, auto_enqueued, ui_now, polls,
                   requests, started, skipped>>
    /\ UNCHANGED engine_vars

\* add_pipeline, the dialog accepted: the pipeline is appended to the
\* configuration, the list is rebuilt and the status of the new card is
\* refreshed by its index.
AddPipeline(name) ==
    /\ \A i \in 1..Len(pipelines) : pipelines[i] # name
    /\ pipelines' = Append(pipelines, name)
    /\ path_checks' = RefreshPipelineStatusByIndex(path_checks, Len(pipelines),
                                                   Len(pipelines) + 1)
    /\ path_checks'[Len(pipelines)].stray <= MaxStray
    /\ UNCHANGED <<sync_queue, sync_running, sync_thread_index, threads, current_device,
                   last_device_serial, last_auto_sync_time, auto_enqueued, ui_now, polls,
                   requests, started, removed, skipped>>
    /\ UNCHANGED engine_vars

\* The AdbWorker of the path check recorded for index emits finished or
\* error: its slot updates the card, the thread quits and is no longer
\* running.
PathCheckEnds(index) ==
    /\ path_checks[index].state = "running"
    /\ path_checks' = [path_checks EXCEPT ![index].state = "finished"]
    /\ UNCHANGED <<pipelines, sync_queue, sync_running, sync_thread_index, threads,
                   current_device, last_device_serial, last_auto_sync_time, auto_enqueued,
                   ui_now, polls, requests, started, removed, skipped>>
    /\ UNCHANGED engine_vars

\* The same for a path check of index that the dict no longer records.
StrayCheckEnds(index) ==
    /\ path_checks[index].stray > 0
    /\ path_checks' = [path_checks EXCEPT ![index].stray = @ - 1]
    /\ UNCHANGED <<pipelines, sync_queue, sync_running, sync_thread_index, threads,
                   current_device, last_device_serial, last_auto_sync_time, auto_enqueued,
                   ui_now, polls, requests, started, removed, skipped>>
    /\ UNCHANGED engine_vars

\* thread.finished.connect(thread.deleteLater): the event loop destroys
\* the thread object recorded for index; the dict keeps its wrapper.
PathCheckDeleted(index) ==
    /\ path_checks[index].state = "finished"
    /\ path_checks' = [path_checks EXCEPT ![index].state = "deleted"]
    /\ UNCHANGED <<pipelines, sync_queue, sync_running, sync_thread_index, threads,
                   current_device, last_device_serial, last_auto_sync_time, auto_enqueued,
                   ui_now, polls, requests, started, removed, skipped>>
    /\ UNCHANGED engine_vars

\* The SyncThread t issues an adb command. Without a device the command
\* raises AdbError, which ends the run (fatal) or counts as one failed copy.
ThreadRunAdb(t) ==
    /\ t \in threads
    /\ t.state = "running"
    /\ Len(t.cmds) < MaxCommands
    /\ LET r == RunAdb(current_device)
       IN \E fatal \in BOOLEAN :
            /\ fatal => r.raised
            /\ threads' = (threads \ {t})
                          \cup {[t EXCEPT !.cmds = Append(@, r.serial),
                                          !.state = IF fatal THEN "error" ELSE "running"]}
    /\ UNCHANGED <<pipelines, sync_queue, sync_running, sync_thread_index, current_device,
                   last_device_serial, last_auto_sync_time, auto_enqueued, path_checks,
                   ui_now, polls, requests, started, removed, skipped>>
    /\ UNCHANGED engine_vars

\* SyncThread.run, lines 553-556: sync() returned and finished is emitted,
\* or sync() raised and error is emitted.
ThreadEnds(t) ==
    /\ t \in threads
    /\ t.state = "running"
    /\ \E sync_raised \in BOOLEAN :
          threads' = (threads \ {t})
                     \cup {[t EXCEPT !.state = RunSignals(sync_raised)[1].name]}
    /\ UNCHANGED <<pipelines, sync_queue, sync_running, sync_thread_index, current_device,
                   last_device_serial, last_auto_sync_time, auto_enqueued, path_checks,
                   ui_now, polls, requests, started, removed, skipped>>
    /\ UNCHANGED engine_vars

\* on_sync_finished, the slot of the signal finished of thread t.
OnSyncFinished(t) ==
    /\ t \in threads
    /\ t.state = "finished"
    /\ Resume(sync_queue, FALSE, threads \ {t}, current_device)
    /\ UNCHANGED <<pipelines, current_device, last_device_serial, last_auto_sync_time,
                   auto_enqueued, path_checks, ui_now, polls, requests, removed>>
    /\ UNCHANGED engine_vars

\* on_sync_error, the slot of the signal error of thread t.
OnSyncError(t) ==
    /\ t \in threads
    /\ t.state = "error"
    /\ Resume(sync_queue, FALSE, threads \ {t}, current_device)
    /\ UNCHANGED <<pipelines, current_device, last_device_serial, last_auto_sync_time,
                   auto_enqueued, path_checks, ui_now, polls, requests, removed>>
    /\ UNCHANGED engine_vars

\* ------------------------------------------------------- CompareSpec
FileStates(times) == [size : Sizes, mtime : times]
Trees(paths, times) == [paths -> FileStates(times) \cup {Absent}]

\* The inventory of a tree: one record per present file, in PathSeq order.
RECURSIVE Inventory(_, _, _, _)
Inventory(tree, paths, isLocal, i) ==
    IF i > Len(PathSeq) THEN <<>>
    ELSE LET p == PathSeq[i]
         IN (IF p \in paths /\ tree[p] # Absent
             THEN <<IF isLocal THEN LocalRec(p, tree[p]) ELSE DeviceRec(p, tree[p])>>
             ELSE <<>>)
            \o Inventory(tree, paths, isLocal, i + 1)

InitCompare ==
    /\ \E lt \in Trees(ComparePaths, LocalTimes), dt \in Trees(ComparePaths, DeviceTimes) :
          /\ local_fs = lt
          /\ device_fs = dt
          /\ local_files = Inventory(lt, ComparePaths, TRUE, 1)
          /\ device_files = Inventory(dt, ComparePaths, FALSE, 1)
    /\ device_dirs = {""}
    /\ direction \in Directions
    /\ plugin \in Plugins
    /\ conflict_callback \in BOOLEAN
    /\ hook_answers \in HookAnswers({p \in ComparePaths : /\ local_fs[p] # Absent
                                                          /\ device_fs[p] # Absent
                                                          /\ local_fs[p].mtime < device_fs[p].mtime},
                                    direction, plugin, conflict_callback)
    /\ pc = "collected"
    /\ run = 1
    /\ operations = <<>>
    /\ conflict_log = <<>>
    /\ idx = 0
    /\ stats = ZeroStats
    /\ all_ok = TRUE
    /\ include_ext = {}
    /\ exclude_ext = {}
    /\ threshold = 0
    /\ sync_days = 0
    /\ now = 0
    /\ filter_answers = [p \in Paths |-> "accept"]
    /\ filter_calls = <<>>
    /\ env = Benign
    /\ stop_requested = FALSE
    /\ stop_run = 0
    /\ raised = "none"
    /\ adb_calls = [NoCalls EXCEPT !.ls = 1]
    /\ trace = <<>>
    /\ NoWindow

NextCompare == SyncCompare

CompareSpec == InitCompare /\ [][NextCompare]_vars

\* ---------------------------------------------------------------- Spec
\* Every local tree over RunPaths; on the device every state of the file
\* under the root, the subdirectory "d" not yet existing.
Init ==
    /\ local_fs \in Trees(RunPaths, LocalTimes)
    /\ device_fs \in {t \in Trees(RunPaths, DeviceTimes) : t["d/c.txt"] = Absent}
    /\ device_dirs = {""}
    /\ direction \in Directions
    /\ plugin \in Plugins
    /\ conflict_callback \in BOOLEAN
    /\ hook_answers \in HookAnswers({p \in RunPaths : DirName(p) = ""},
                                    direction, plugin, conflict_callback)
    /\ include_ext = {}
    /\ exclude_ext = {}
    /\ threshold = 0
    /\ sync_days = 0
    /\ now = 0
    /\ filter_answers = [p \in Paths |-> "accept"]
    /\ filter_calls = <<>>
    /\ env = Benign
    /\ stop_requested = FALSE
    /\ stop_run = 0
    /\ raised = "none"
    /\ adb_calls = NoCalls
    /\ trace = <<>>
    /\ NoWindow
    /\ pc = "start"
    /\ run = 1
    /\ local_files = <<>>
    /\ device_files = <<>>
    /\ operations = <<>>
    /\ conflict_log = <<>>
    /\ idx = 0
    /\ stats = ZeroStats
    /\ all_ok = TRUE

Next ==
    \/ SyncCollect
    \/ SyncCompare
    \/ SyncExecute
    \/ SyncEnd
    \/ SyncAgain

Spec == Init /\ [][Next]_vars

\* ------------------------------------------------------------ FilterSpec
\* The threshold of one day lies at the start of minute MaxMinute: local
\* mtimes one second before it, on it and 59 seconds after it; device
\* mtimes one minute before it and on it.
FilterLocalTimes == {SecondsPerMinute * MaxMinute - 1, SecondsPerMinute * MaxMinute,
                     SecondsPerMinute * MaxMinute + (SecondsPerMinute - 1)}
FilterDeviceTimes == {SecondsPerMinute * (MaxMinute - 1), SecondsPerMinute * MaxMinute}
\* No filter reads the size of a file.
FilterTrees(times) == [FilterPaths -> [size : {1}, mtime : times] \cup {Absent}]
\* pipeline['include_extensions'] and pipeline['exclude_extensions'] as the
\* pipeline dialog stores them: the entries as typed, not lowered.
IncludeSets == {{}, {".txt"}}
ExcludeSets == {{}, {".tmp"}, {".TMP"}}
\* What the on_file_filter hook of the plugin does, per path: only an
\* overriding hook is code of the environment. The hook is deterministic.
FilterAnswers(asked, plg) ==
    LET live == IF plg = "custom" THEN asked ELSE {}
    IN {[p \in Paths |-> IF p \in live THEN a[p] ELSE "accept"] : a \in [live -> FilterOutcomes]}

InitFilter ==
    /\ local_fs \in FilterTrees(FilterLocalTimes)
    /\ device_fs \in FilterTrees(FilterDeviceTimes)
    /\ device_dirs = {""}
    /\ direction \in Directions
    /\ plugin \in Plugins
    /\ conflict_callback = FALSE
    /\ hook_answers = [p \in Paths |-> "skip"]
    /\ include_ext \in IncludeSets
    /\ exclude_ext \in ExcludeSets
    /\ sync_days \in SyncDays
    /\ filter_answers \in FilterAnswers(FilterPaths, plugin)
    /\ env = Benign
    /\ threshold = 0
    /\ now = 0
    /\ filter_calls = <<>>
    /\ stop_requested = FALSE
    /\ stop_run = 0
    /\ raised = "none"
    /\ adb_calls = NoCalls
    /\ trace = <<>>
    /\ NoWindow
    /\ pc = "start"
    /\ run = 1
    /\ local_files = <<>>
    /\ device_files = <<>>
    /\ operations = <<>>
    /\ conflict_log = <<>>
    /\ idx = 0
    /\ stats = ZeroStats
    /\ all_ok = TRUE

NextFilter ==
    \/ SyncCollect
    \/ SyncCompare

FilterSpec == InitFilter /\ [][NextFilter]_vars

\* ------------------------------------------------------------- FaultSpec
\* Both trees over ComparePaths, every local file newer than its device
\* copy; the device root may be missing, and then it holds no file.
FaultLocalTrees == [ComparePaths -> {Absent, [size |-> 1, mtime |-> SecondsPerMinute * MaxMinute]}]
FaultDeviceTrees == [ComparePaths -> {Absent, [size |-> 1, mtime |-> SecondsPerMinute]}]
\* The hooks of a plugin raise only where the plugin overrides them.
FaultEnvironments(plg) ==
    {e \in Environments :
        plg # "custom" => (~e.path_resolve_raises /\ ~e.sync_end_raises /\ ~e.sync_error_raises)}

InitFault ==
    /\ local_fs \in FaultLocalTrees
    /\ device_dirs \in {{""}, {}}
    /\ device_fs \in {t \in FaultDeviceTrees : device_dirs = {} => \A p \in ComparePaths : t[p] = Absent}
    /\ direction \in Directions
    /\ plugin \in Plugins
    /\ conflict_callback = FALSE
    /\ hook_answers = [p \in Paths |-> "skip"]
    /\ include_ext = {}
    /\ exclude_ext = {}
    /\ sync_days = 0
    /\ filter_answers = [p \in Paths |-> "accept"]
    /\ env \in FaultEnvironments(plugin)
    /\ threshold = 0
    /\ now = 0
    /\ filter_calls = <<>>
    /\ stop_requested = FALSE
    /\ stop_run = 0
    /\ raised = "none"
    /\ adb_calls = NoCalls
    /\ trace = <<>>
    /\ NoWindow
    /\ pc = "start"
    /\ run = 1
    /\ local_files = <<>>
    /\ device_files = <<>>
    /\ operations = <<>>
    /\ conflict_log = <<>>
    /\ idx = 0
    /\ stats = ZeroStats
    /\ all_ok = TRUE

NextFault ==
    \/ SyncCollect
    \/ SyncCompare
    \/ SyncExecute
    \/ SyncEnd
    \/ RequestStop

FaultSpec == InitFault /\ [][NextFault]_vars

\* -------------------------------------------------------------- StopSpec
\* Calls of sync() one after the other on one engine, as SyncThread makes
\* them on the engine of the window, while another thread may set
\* stop_requested; nothing else fails. Every local file is newer than its
\* device copy.
InitStop ==
    /\ local_fs \in FaultLocalTrees
    /\ device_dirs = {""}
    /\ device_fs \in FaultDeviceTrees
    /\ direction \in Directions
    /\ plugin = "none"
    /\ conflict_callback = FALSE
    /\ hook_answers = [p \in Paths |-> "skip"]
    /\ include_ext = {}
    /\ exclude_ext = {}
    /\ sync_days = 0
    /\ filter_answers = [p \in Paths |-> "accept"]
    /\ env = Benign
    /\ threshold = 0
    /\ now = 0
    /\ filter_calls = <<>>
    /\ stop_requested = FALSE
    /\ stop_run = 0
    /\ raised = "none"
    /\ adb_calls = NoCalls
    /\ trace = <<>>
    /\ NoWindow
    /\ pc = "start"
    /\ run = 1
    /\ local_files = <<>>
    /\ device_files = <<>>
    /\ operations = <<>>
    /\ conflict_log = <<>>
    /\ idx = 0
    /\ stats = ZeroStats
    /\ all_ok = TRUE

NextStop ==
    \/ SyncCollect
    \/ SyncCompare
    \/ SyncExecute
    \/ SyncEnd
    \/ SyncAgain
    \/ RequestStop

StopSpec == InitStop /\ [][NextStop]_vars

\* ----------------------------------------------------------- UndatedSpec
\* One call of sync() where ls prints a date that list_directory cannot
\* parse for some device files; the local files are newer than the dated
\* device files. A plugin, if there is one, accepts every file.
UndatedDeviceTrees == [ComparePaths -> {Absent, [size |-> 1, mtime |-> SecondsPerMinute],
                                        [size |-> 1, mtime |-> NoTime]}]

InitUndated ==
    /\ local_fs \in FaultLocalTrees
    /\ device_dirs = {""}
    /\ device_fs \in UndatedDeviceTrees
    /\ direction \in Directions
    /\ plugin \in {"none", "custom"}
    /\ conflict_callback = FALSE
    /\ hook_answers = [p \in Paths |-> "skip"]
    /\ include_ext = {}
    /\ exclude_ext = {}
    /\ sync_days = 0
    /\ filter_answers = [p \in Paths |-> "accept"]
    /\ env = Benign
    /\ threshold = 0
    /\ now = 0
    /\ filter_calls = <<>>
    /\ stop_requested = FALSE
    /\ stop_run = 0
    /\ raised = "none"
    /\ adb_calls = NoCalls
    /\ trace = <<>>
    /\ NoWindow
    /\ pc = "start"
    /\ run = 1
    /\ local_files = <<>>
    /\ device_files = <<>>
    /\ operations = <<>>
    /\ conflict_log = <<>>
    /\ idx = 0
    /\ stats = ZeroStats
    /\ all_ok = TRUE

NextUndated ==
    \/ SyncCollect
    \/ SyncCompare
    \/ SyncExecute
    \/ SyncEnd

UndatedSpec == InitUndated /\ [][NextUndated]_vars

\* --------------------------------------------------------------- DirSpec
\* One call of sync() on trees over DirPaths: two local files share the
\* subdirectory "d", which exists on the device or not; mkdir succeeds or
\* fails. Local files are newer than the device files.
DirLocalTrees == [DirPaths -> {Absent, [size |-> 1, mtime |-> SecondsPerMinute * MaxMinute]}]
DirDeviceTrees == [DirPaths -> {Absent, [size |-> 1, mtime |-> SecondsPerMinute]}]

InitDir ==
    /\ local_fs \in DirLocalTrees
    /\ device_dirs \in {{""}, {"", "d"}}
    /\ device_fs \in {t \in DirDeviceTrees :
                         /\ t["d/f.txt"] = Absent
                         /\ "d" \notin device_dirs => t["d/c.txt"] = Absent}
    /\ direction \in Directions
    /\ plugin = "none"
    /\ conflict_callback = FALSE
    /\ hook_answers = [p \in Paths |-> "skip"]
    /\ include_ext = {}
    /\ exclude_ext = {}
    /\ sync_days = 0
    /\ filter_answers = [p \in Paths |-> "accept"]
    /\ env \in {[Benign EXCEPT !.mkdir_ok = b] : b \in BOOLEAN}
    /\ threshold = 0
    /\ now = 0
    /\ filter_calls = <<>>
    /\ stop_requested = FALSE
    /\ stop_run = 0
    /\ raised = "none"
    /\ adb_calls = NoCalls
    /\ trace = <<>>
    /\ NoWindow
    /\ pc = "start"
    /\ run = 1
    /\ local_files = <<>>
    /\ device_files = <<>>
    /\ operations = <<>>
    /\ conflict_log = <<>>
    /\ idx = 0
    /\ stats = ZeroStats
    /\ all_ok = TRUE

NextDir ==
    \/ SyncCollect
    \/ SyncCompare
    \/ SyncExecute
    \/ SyncEnd

DirSpec == InitDir /\ [][NextDir]_vars

\* ------------------------------------------------------------ WindowSpec
\* The engine at rest: no call of sync() is modelled step by step; a run
\* is what its SyncThread shows.
NoRun ==
    /\ local_fs = [p \in ComparePaths |-> Absent]
    /\ device_fs = [p \in ComparePaths |-> Absent]
    /\ device_dirs = {""}
    /\ direction = "local_to_device"
    /\ plugin = "none"
    /\ conflict_callback = FALSE
    /\ hook_answers = [p \in Paths |-> "skip"]
    /\ include_ext = {}
    /\ exclude_ext = {}
    /\ sync_days = 0
    /\ filter_answers = [p \in Paths |-> "accept"]
    /\ env = Benign
    /\ threshold = 0
    /\ now = 0
    /\ filter_calls = <<>>
    /\ stop_requested = FALSE
    /\ stop_run = 0
    /\ raised = "none"
    /\ adb_calls = NoCalls
    /\ trace = <<>>
    /\ pc = "idle"
    /\ run = 1
    /\ local_files = <<>>
    /\ device_files = <<>>
    /\ operations = <<>>
    /\ conflict_log = <<>>
    /\ idx = 0
    /\ stats = ZeroStats
    /\ all_ok = TRUE

\* The window with three pipelines and the queue of runs: one device, "A",
\* comes and goes, found again one poll after it was lost; what a run does
\* between its start and its end is left out.
InitWindow ==
    /\ \E dev \in {"A", NoDevice} : WindowInit(PipelineNames, dev)
    /\ NoRun

NextWindow ==
    \/ \E index \in 0..(Len(PipelineNames) - 1) : OnSyncRequested(index)
    \/ \E found \in {"A", NoDevice, "AdbError"} : CheckDevice(found, PollInterval)
    \/ \E index \in 0..(Len(PipelineNames) - 1) : OnDeleteRequested(index)
    \/ \E t \in threads : ThreadEnds(t)
    \/ \E t \in threads : OnSyncFinished(t)
    \/ \E t \in threads : OnSyncError(t)

WindowSpec == InitWindow /\ [][NextWindow]_vars

\* --------------------------------------------------------- QueueLiveSpec
\* The window started with device "A" connected: sync buttons, deletions,
\* the device lost and found again, and runs that end. Every started run
\* ends, by
\* returning or by raising (SyncThread.run emits one of its two signals),
\* and the event loop of the window calls the slot of every signal emitted.
InitQueueLive ==
    /\ WindowInit(PipelineNames, "A")
    /\ NoRun

NextQueueLive ==
    \/ \E index \in 0..(Len(PipelineNames) - 1) : OnSyncRequested(index)
    \/ \E found \in {"A", NoDevice} : CheckDevice(found, PollInterval)
    \/ \E index \in 0..(Len(PipelineNames) - 1) : OnDeleteRequested(index)
    \/ \E t \in threads : ThreadEnds(t)
    \/ \E t \in threads : OnSyncFinished(t)
    \/ \E t \in threads : OnSyncError(t)

QueueLiveSpec ==
    /\ InitQueueLive /\ [][NextQueueLive]_vars
    /\ WF_vars(\E t \in threads : ThreadEnds(t))
    /\ WF_vars(\E t \in threads : OnSyncFinished(t))
    /\ WF_vars(\E t \in threads : OnSyncError(t))

\* ---------------------------------------------------------- CooldownSpec
\* The window with auto-sync alone: the device comes and goes, found
\* again within the cooldown or after it, pipelines are deleted, runs end.
InitCooldown ==
    /\ \E dev \in {"A", NoDevice} : WindowInit(PipelineNames, dev)
    /\ NoRun

NextCooldown ==
    \/ \E found \in {"A", NoDevice}, gap \in PollGaps : CheckDevice(found, gap)
    \/ \E index \in 0..(Len(PipelineNames) - 1) : OnDeleteRequested(index)
    \/ \E t \in threads : ThreadEnds(t)
    \/ \E t \in threads : OnSyncFinished(t)
    \/ \E t \in threads : OnSyncError(t)

CooldownSpec == InitCooldown /\ [][NextCooldown]_vars

\* --------------------------------------------------------- PathCheckSpec
\* The window with the path checks of its cards, started without a
\* device: device "A" arrives, pipelines are deleted and added, path checks
\* end and their threads are destroyed.
InitPathCheck ==
    /\ WindowInit(PipelineNames, NoDevice)
    /\ NoRun

NextPathCheck ==
    \/ CheckDevice("A", PollInterval)
    \/ \E index \in 0..(Len(PipelineNames) - 1) : OnDeleteRequested(index)
    \/ \E i \in 1..Len(PipelineNames) : AddPipeline(PipelineNames[i])
    \/ \E index \in 0..(Len(PipelineNames) - 1) : PathCheckEnds(index)
    \/ \E index \in 0..(Len(PipelineNames) - 1) : StrayCheckEnds(index)
    \/ \E index \in 0..(Len(PipelineNames) - 1) : PathCheckDeleted(index)

PathCheckSpec == InitPathCheck /\ [][NextPathCheck]_vars

\* ------------------------------------------------------------ DeviceSpec
\* The same window with two devices and runs that issue adb commands while
\* check_device goes on polling.
InitDevice ==
    /\ \E dev \in Serials \cup {NoDevice} : WindowInit(PipelineNames, dev)
    /\ NoRun

NextDevice ==
    \/ \E index \in 0..(Len(PipelineNames) - 1) : OnSyncRequested(index)
    \/ \E found \in Serials \cup {NoDevice, "AdbError"} : CheckDevice(found, PollInterval)
    \/ \E index \in 0..(Len(PipelineNames) - 1) : OnDeleteRequested(index)
    \/ \E t \in threads : ThreadRunAdb(t)
    \/ \E t \in threads : ThreadEnds(t)
    \/ \E t \in threads : OnSyncFinished(t)
    \/ \E t \in threads : OnSyncError(t)

DeviceSpec == InitDevice /\ [][NextDevice]_vars

\* ====================================================================
\* Properties of _compare_files, checked under CompareSpec
\* ====================================================================
\* The comparison has returned its operation list.
Compared == pc = "executing"
LocalHas(p) == p \in DictKeySet(local_files)
DeviceHas(p) == p \in DictKeySet(device_files)
L(p) == DictGet(local_files, p)
D(p) == DictGet(device_files, p)
BothDiffer(p) == LocalHas(p) /\ DeviceHas(p) /\ ~IsSameFile(L(p), D(p))
Uploads(p) == {i \in 1..Len(operations) :
                 operations[i].op = "upload" /\ operations[i].file_info.rel_path = p}
Downloads(p) == {i \in 1..Len(operations) :
                   operations[i].op = "download" /\ operations[i].file_info.rel_path = p}
NoOperation(p) == Uploads(p) = {} /\ Downloads(p) = {}
OneUpload(p) == /\ Cardinality(Uploads(p)) = 1
                /\ Downloads(p) = {}
                /\ \A i \in Uploads(p) : operations[i].file_info = L(p)
OneDownload(p) == /\ Cardinality(Downloads(p)) = 1
                  /\ Uploads(p) = {}
                  /\ \A i \in Downloads(p) : /\ operations[i].file_info = D(p)
                                             /\ operations[i].target_path = D(p).full_device_path
Resolutions(p) == {i \in 1..Len(conflict_log) : conflict_log[i].rel_path = p}
\* The one conflict case: both sides hold the path, the records differ and
\* the device copy is strictly newer.
IsConflict(p) == BothDiffer(p) /\ L(p).mtime < D(p).mtime

\* C1: in push direction the operation list is exactly one upload for every
\* local path absent from the device inventory and one upload for every path
\* on both sides that is not is_same and whose local mtime is strictly
\* greater; no download, nothing for a device-only path, nothing for a path
\* whose device copy is newer or equal.
C1_PushPlan ==
    (Compared /\ direction = "local_to_device") =>
        /\ \A p \in Paths :
              IF LocalHas(p) /\ (~DeviceHas(p) \/ (BothDiffer(p) /\ L(p).mtime > D(p).mtime))
              THEN OneUpload(p)
              ELSE NoOperation(p)
        /\ \A i \in 1..Len(operations) : operations[i].op = "upload"

\* A push plan with an upload of a local-only path and none for a differing
\* path whose device copy is newer or equal.
C1_Witness ==
    /\ Compared /\ direction = "local_to_device"
    /\ \E p, q \in Paths :
          /\ LocalHas(p) /\ ~DeviceHas(p) /\ OneUpload(p)
          /\ BothDiffer(q) /\ L(q).mtime <= D(q).mtime /\ NoOperation(q)

\* C2: in pull direction the operation list is exactly one download for
\* every device path absent locally and one download for every path on both
\* sides that is not is_same and whose device mtime is strictly greater; no
\* upload, nothing for a local-only path, nothing for a path whose device
\* copy is older or equal.
C2_PullPlan ==
    (Compared /\ direction = "device_to_local") =>
        /\ \A p \in Paths :
              IF DeviceHas(p) /\ (~LocalHas(p) \/ (BothDiffer(p) /\ D(p).mtime > L(p).mtime))
              THEN OneDownload(p)
              ELSE NoOperation(p)
        /\ \A i \in 1..Len(operations) : operations[i].op = "download"

\* A pull plan with a download of a device-only path and none for a
\* differing path whose device copy is older or equal.
C2_Witness ==
    /\ Compared /\ direction = "device_to_local"
    /\ \E p, q \in Paths :
          /\ DeviceHas(p) /\ ~LocalHas(p) /\ OneDownload(p)
          /\ BothDiffer(q) /\ D(q).mtime <= L(q).mtime /\ NoOperation(q)

\* C3: in bidirectional mode a local-only path yields exactly one upload, a
\* device-only path exactly one download, an is_same pair no operation, and
\* a differing pair whose local copy is strictly newer exactly one upload
\* with no conflict resolution performed for it.
C3_BidirDeterministic ==
    (Compared /\ direction = "bidirectional") =>
        \A p \in Paths :
            /\ (LocalHas(p) /\ ~DeviceHas(p)) => (OneUpload(p) /\ Resolutions(p) = {})
            /\ (DeviceHas(p) /\ ~LocalHas(p)) => (OneDownload(p) /\ Resolutions(p) = {})
            /\ (LocalHas(p) /\ DeviceHas(p) /\ IsSameFile(L(p), D(p)))
                  => (NoOperation(p) /\ Resolutions(p) = {})
            /\ (BothDiffer(p) /\ L(p).mtime > D(p).mtime)
                  => (OneUpload(p) /\ Resolutions(p) = {})

\* A bidirectional plan, with a conflict hook and a callback at hand, that
\* uploads a newer local copy and downloads a device-only file.
C3_Witness ==
    /\ Compared /\ direction = "bidirectional"
    /\ plugin = "custom" /\ conflict_callback
    /\ \E p, q \in Paths :
          /\ BothDiffer(p) /\ L(p).mtime > D(p).mtime /\ OneUpload(p)
          /\ DeviceHas(q) /\ ~LocalHas(q) /\ OneDownload(q)

\* C4: conflict completeness. No path ever gets more than one conflict
\* resolution in a run, and once the bidirectional comparison has returned,
\* every conflict path has got exactly one: by the plugin hook, else by the
\* callback, else the default skip.
C4_ConflictCompleteness ==
    /\ \A p \in Paths : Cardinality(Resolutions(p)) <= 1
    /\ (Compared /\ direction = "bidirectional") =>
          \A p \in Paths : IsConflict(p) =>
              /\ Cardinality(Resolutions(p)) = 1
              /\ \A i \in Resolutions(p) :
                    /\ conflict_log[i].by \in {"plugin", "callback", "default"}
                    /\ conflict_log[i].by = "default" <=> (plugin = "none" /\ ~conflict_callback)

\* A bidirectional comparison with two conflict paths, each resolved once.
C4_Witness ==
    /\ Compared /\ direction = "bidirectional"
    /\ \E p, q \in Paths :
          /\ p # q /\ IsConflict(p) /\ IsConflict(q)
          /\ Cardinality(Resolutions(p)) = 1 /\ Cardinality(Resolutions(q)) = 1

\* C5: with a plugin that only inherits BasePlugin.on_conflict and a
\* conflict_callback given, every bidirectional conflict is decided by the
\* callback.
C5_FallbackDecides ==
    (direction = "bidirectional" /\ plugin = "base" /\ conflict_callback) =>
        \A i \in 1..Len(conflict_log) : conflict_log[i].by = "callback"

\* C6: the decision of a bidirectional conflict maps to the plan: 'local'
\* gives exactly one upload and no download for the path, 'device' exactly
\* one download carrying the device record and its full_device_path and no
\* upload, 'skip' no operation; with neither plugin nor callback the
\* conflict path gets no operation.
C6_DecisionMapping ==
    (Compared /\ direction = "bidirectional") =>
        /\ \A i \in 1..Len(conflict_log) :
              LET e == conflict_log[i]
              IN /\ e.outcome = "local" => OneUpload(e.rel_path)
                 /\ e.outcome = "device" => OneDownload(e.rel_path)
                 /\ e.outcome = "skip" => NoOperation(e.rel_path)
        /\ (plugin = "none" /\ ~conflict_callback) =>
              \A p \in Paths : IsConflict(p) => NoOperation(p)

\* Two conflicts in one run, one decided 'device' and downloaded from the
\* device record's absolute path, the other decided 'local' and uploaded.
C6_Witness ==
    /\ Compared /\ direction = "bidirectional"
    /\ \E i, j \in 1..Len(conflict_log) :
          /\ conflict_log[i].outcome = "device"
          /\ OneDownload(conflict_log[i].rel_path)
          /\ \E k \in Downloads(conflict_log[i].rel_path) :
                operations[k].target_path = device_root \o "/" \o conflict_log[i].rel_path
          /\ conflict_log[j].outcome = "local"
          /\ OneUpload(conflict_log[j].rel_path)

\* C7: a conflict hook or callback is only ever invoked in a bidirectional
\* run, for a path both inventories hold, whose records are not is_same and
\* whose device copy is strictly newer.
C7_HookOnlyOnConflict ==
    \A i \in 1..Len(conflict_log) :
        conflict_log[i].by \in {"plugin", "callback"} =>
            /\ direction = "bidirectional"
            /\ LocalHas(conflict_log[i].rel_path)
            /\ DeviceHas(conflict_log[i].rel_path)
            /\ ~IsSameFile(L(conflict_log[i].rel_path), D(conflict_log[i].rel_path))
            /\ L(conflict_log[i].rel_path).mtime < D(conflict_log[i].rel_path).mtime

\* The callback has been invoked for one path while another path of the
\* same run, with equal mtimes and different sizes, was not put to it.
C7_Witness ==
    /\ direction = "bidirectional"
    /\ \E i \in 1..Len(conflict_log) : conflict_log[i].by = "callback"
    /\ \E q \in Paths : BothDiffer(q) /\ L(q).mtime = D(q).mtime /\ Resolutions(q) = {}

\* The tie of C8: both sides hold the path, the mtimes are exactly equal and
\* the sizes differ.
IsTie(p) == /\ LocalHas(p) /\ DeviceHas(p)
            /\ L(p).mtime = D(p).mtime
            /\ L(p).size # D(p).size

\* C8 as stated: in bidirectional mode a tie is routed to the conflict path:
\* when the run has a resolver of its own (an overriding plugin hook, or a
\* callback and no plugin), that resolver is invoked for the tie.
C8_TieToConflict ==
    (/\ Compared /\ direction = "bidirectional"
     /\ (plugin = "custom" \/ (plugin = "none" /\ conflict_callback))) =>
        \A p \in Paths : IsTie(p) =>
            \E i \in Resolutions(p) : conflict_log[i].by \in {"plugin", "callback"}

\* C8 as amended: in bidirectional mode a tie falls through every branch:
\* no conflict resolution is performed for it and no operation is produced.
C8_TieFallsThrough ==
    (Compared /\ direction = "bidirectional") =>
        \A p \in Paths : IsTie(p) => (Resolutions(p) = {} /\ NoOperation(p))

\* A bidirectional comparison, plugin hook and callback both at hand, over a
\* tie and a true conflict.
C8_Witness ==
    /\ Compared /\ direction = "bidirectional"
    /\ plugin = "custom" /\ conflict_callback
    /\ \E p, q \in Paths : IsTie(p) /\ NoOperation(p) /\ IsConflict(q) /\ Resolutions(q) # {}

\* The inventories with the sides exchanged.
RECURSIVE AsLocal(_)
AsLocal(dfs) == IF dfs = <<>> THEN <<>>
                ELSE <<LocalRec(Head(dfs).rel_path, Head(dfs))>> \o AsLocal(Tail(dfs))
RECURSIVE AsDevice(_)
AsDevice(lfs) == IF lfs = <<>> THEN <<>>
                 ELSE <<DeviceRec(Head(lfs).rel_path, Head(lfs))>> \o AsDevice(Tail(lfs))
PathsOf(ops, kind) == {ops[i].file_info.rel_path : i \in {j \in 1..Len(ops) : ops[j].op = kind}}
\* _compare_files on the exchanged inventories in direction dir.
Exchanged(dir) ==
    CompareFiles(AsLocal(device_files), AsDevice(local_files), dir, plugin,
                 conflict_callback, <<>>, hook_answers).operations

\* C10: symmetry. The paths uploaded by push with local = A, device = B are
\* the paths downloaded by pull with local = B, device = A, and the paths
\* downloaded by pull with local = A, device = B are the paths uploaded by
\* push with local = B, device = A.
C10_Symmetry ==
    /\ (Compared /\ direction = "local_to_device") =>
          PathsOf(operations, "upload") = PathsOf(Exchanged("device_to_local"), "download")
    /\ (Compared /\ direction = "device_to_local") =>
          PathsOf(operations, "download") = PathsOf(Exchanged("local_to_device"), "upload")

\* A push plan that uploads one path and not the other one, a tie.
C10_Witness ==
    /\ Compared /\ direction = "local_to_device"
    /\ \E p, q \in Paths : Uploads(p) # {} /\ IsTie(q) /\ Uploads(q) = {}

\* ====================================================================
\* Properties of successive runs, checked under Spec
\* ====================================================================
\* C9: idempotence. When every copy of the earlier runs succeeded and no
\* run raised, the next run's comparison returns an empty operation list.
C9_Idempotence ==
    (run > 1 /\ pc = "executing" /\ idx = 0 /\ all_ok) => operations = <<>>

\* t and u lie in one minute [60 m, 60 m + 59].
SameFlooredMinute(t, u) ==
    \E m \in 0..(MaxMinute + 1) :
        /\ SecondsPerMinute * m <= t /\ t < SecondsPerMinute * (m + 1)
        /\ SecondsPerMinute * m <= u /\ u < SecondsPerMinute * (m + 1)

\* C11: is_same of a local and a device record is true if and only if the
\* sizes are equal and both mtimes lie in the same floored minute, whatever
\* the paths; a path whose two records are identical in this sense gets no
\* operation in any direction.
C11_IsSame ==
    /\ \A i \in 1..Len(local_files), j \in 1..Len(device_files) :
          IsSameFile(local_files[i], device_files[j])
              <=> (/\ local_files[i].size = device_files[j].size
                   /\ SameFlooredMinute(local_files[i].mtime, device_files[j].mtime))
    /\ Compared =>
          \A p \in Paths :
              (/\ LocalHas(p) /\ DeviceHas(p)
               /\ L(p).size = D(p).size
               /\ SameFlooredMinute(L(p).mtime, D(p).mtime)) => NoOperation(p)

\* A comparison over equal-size records 59 seconds apart in one minute,
\* judged identical and left alone, and over equal-size records one second
\* apart in two minutes, judged different.
C11_Witness ==
    /\ Compared
    /\ \E p, q \in Paths :
          /\ LocalHas(p) /\ DeviceHas(p) /\ L(p).size = D(p).size
          /\ L(p).mtime = D(p).mtime + (SecondsPerMinute - 1)
          /\ IsSameFile(L(p), D(p)) /\ NoOperation(p)
          /\ LocalHas(q) /\ DeviceHas(q) /\ L(q).size = D(q).size
          /\ L(q).mtime + 1 = D(q).mtime
          /\ ~IsSameFile(L(q), D(q))

\* ====================================================================
\* Properties of the inventory collection, checked under FilterSpec
\* ====================================================================
\* Both inventories of the run have been collected.
BothCollected == pc \in {"collected", "executing"}
\* The file of a side at a path, or Absent.
FileOn(side, p) ==
    IF p \notin FilterPaths THEN Absent
    ELSE IF side = "local" THEN local_fs[p] ELSE device_fs[p]
\* The extension of a path in lower case.
LowerExt(p) == IF p = "e.TMP" THEN ".tmp" ELSE ".txt"
\* The extension filter rejects the path: its lowercase extension is in the
\* exclude set, or is not in a non-empty include set.
ExtRejects(p) ==
    \/ LowerExt(p) \in exclude_ext
    \/ include_ext # {} /\ LowerExt(p) \notin include_ext
\* The age filter rejects the mtime: the window is greater than 0 and the
\* age of the file, at the clock reading of the run, exceeds the window.
AgeRejects(mtime) == sync_days > 0 /\ now - mtime > sync_days * DaySeconds
\* The plugin's filter hook, if there is one, accepts the path.
HookAccepts(p) == plugin \in {"none", "base"} \/ filter_answers[p] = "accept"
CallsFor(side, p) == {i \in 1..Len(filter_calls) :
                        filter_calls[i].side = side /\ filter_calls[i].rel_path = p}

\* C12: filter short-circuit. On either side on_file_filter is invoked only
\* for a file of that side that the age filter and the extension filter
\* have let pass, and at most once for it; a candidate rejected by the age
\* filter or by the extension filter never reaches the hook.
C12_ShortCircuit ==
    /\ \A i \in 1..Len(filter_calls) :
          LET c == filter_calls[i]
              f == FileOn(c.side, c.rel_path)
          IN /\ f # Absent
             /\ ~AgeRejects(f.mtime)
             /\ ~ExtRejects(c.rel_path)
    /\ \A side \in {"local", "device"}, p \in Paths : Cardinality(CallsFor(side, p)) <= 1

\* A collection in which the hook was asked about a local and about a
\* device file, while a local file rejected for its age and a device file
\* rejected for its extension were not put to it.
C12_Witness ==
    /\ BothCollected
    /\ \E p, q \in FilterPaths :
          /\ p # q
          /\ CallsFor("local", p) # {} /\ CallsFor("device", p) # {}
          /\ local_fs[q] # Absent /\ AgeRejects(local_fs[q].mtime) /\ CallsFor("local", q) = {}
          /\ device_fs[q] # Absent /\ ~AgeRejects(device_fs[q].mtime) /\ ExtRejects(q)
          /\ CallsFor("device", q) = {}

\* C13: extension filtering. A path whose lowercase extension is in the
\* exclude set, or is not in a non-empty include set, is in neither
\* inventory and in no operation, whatever its timestamps; and two trees
\* that are equal in all other paths reconcile to no operation in every
\* direction.
C13_ExtensionFilter ==
    /\ \A p \in Paths : ExtRejects(p) => (~LocalHas(p) /\ ~DeviceHas(p) /\ NoOperation(p))
    /\ (Compared /\ \A p \in FilterPaths : ~ExtRejects(p) => local_fs[p] = device_fs[p])
          => operations = <<>>

\* Two trees that hold the same a.txt and differ in e.TMP, reconciled with
\* ".tmp" excluded: no operation.
C13_Witness ==
    /\ Compared
    /\ exclude_ext = {".tmp"}
    /\ local_fs["a.txt"] # Absent /\ local_fs["a.txt"] = device_fs["a.txt"]
    /\ local_fs["e.TMP"] # Absent /\ device_fs["e.TMP"] # Absent
    /\ local_fs["e.TMP"].mtime > device_fs["e.TMP"].mtime
    /\ ~LocalHas("e.TMP") /\ ~DeviceHas("e.TMP")
    /\ LocalHas("a.txt") /\ DeviceHas("a.txt")
    /\ operations = <<>>

\* C14: age filtering. Once both inventories are collected, a file of
\* either side that the other filters let pass is missing from the
\* inventory of its side if and only if the window is greater than 0 and
\* now - mtime exceeds the window; with a window of 0 no file is missing
\* for its age.
C14_AgeFilter ==
    BothCollected =>
        \A p \in FilterPaths :
            /\ local_fs[p] # Absent =>
                  (LocalHas(p) <=> (/\ ~AgeRejects(local_fs[p].mtime)
                                    /\ ~ExtRejects(p) /\ HookAccepts(p)))
            /\ device_fs[p] # Absent =>
                  (DeviceHas(p) <=> (/\ ~AgeRejects(device_fs[p].mtime)
                                     /\ ~ExtRejects(p) /\ HookAccepts(p)))
            /\ sync_days = 0 =>
                  /\ (local_fs[p] # Absent /\ ~ExtRejects(p) /\ HookAccepts(p)) => LocalHas(p)
                  /\ (device_fs[p] # Absent /\ ~ExtRejects(p) /\ HookAccepts(p)) => DeviceHas(p)

\* A collection with a window of one day: a local file exactly one day old
\* is kept, a local file one second older and a device file one minute
\* older are rejected.
C14_Witness ==
    /\ BothCollected
    /\ sync_days = 1
    /\ \E p, q \in FilterPaths :
          /\ local_fs[p] # Absent /\ now - local_fs[p].mtime = DaySeconds /\ LocalHas(p)
          /\ local_fs[q] # Absent /\ now - local_fs[q].mtime = DaySeconds + 1 /\ ~LocalHas(q)
          /\ ~ExtRejects(q) /\ HookAccepts(q)
          /\ device_fs[q] # Absent /\ now - device_fs[q].mtime = DaySeconds + SecondsPerMinute
          /\ ~DeviceHas(q)

\* ====================================================================
\* Properties of a run in a failing environment, checked under FaultSpec
\* ====================================================================
\* sync() has returned its stats, or has raised.
Returned == pc = "done"
Raised == pc = "error"
Copies == adb_calls.push + adb_calls.pull
\* This step is an iteration of the copy loop whose push or pull failed:
\* neither tree has changed.
CopyFails == /\ pc = "executing" /\ idx' = idx + 1
             /\ local_fs' = local_fs /\ device_fs' = device_fs

\* C15: a single copy failure is non-fatal. The iteration whose copy fails
\* adds one to the error counter and changes no other counter, the loop
\* goes on to the next operation, and a run in which copies have failed
\* ends by returning its stats, not by raising.
C15_CopyFailureNonFatal ==
    /\ [][CopyFails => (/\ stats' = [stats EXCEPT !.error = @ + 1]
                        /\ pc' = "executing")]_vars
    /\ []((stats.error > 0 /\ (Returned \/ Raised)) => Returned)

\* The copy loop has been left, by this run, before operation idx.
Stopped == (Returned \/ Raised) /\ idx < Len(operations)

\* C16: cooperative cancellation. While the stop flag is set no push and no
\* pull is started; leaving the loop changes no counter and neither tree;
\* and a run that left the loop before operation idx has attempted exactly
\* the operations before it, holds their counts, and has returned its
\* stats instead of raising.
C16_Cancellation ==
    /\ [][stop_requested => (/\ adb_calls'.push = adb_calls.push
                             /\ adb_calls'.pull = adb_calls.pull)]_vars
    /\ [][(pc = "executing" /\ pc' # "executing")
            => (stats' = stats /\ local_fs' = local_fs /\ device_fs' = device_fs)]_vars
    /\ [](Stopped => (/\ Copies = idx
                      /\ stats.upload + stats.download + stats.error = idx
                      /\ Returned))

\* The setup of the run fails: path resolution raises, or the local root is
\* no directory, or the device root is missing and cannot be created.
SetupFails ==
    \/ plugin = "custom" /\ env.path_resolve_raises
    \/ ~env.local_is_dir
    \/ "" \notin device_dirs /\ ~env.mkdir_ok

\* C17: setup errors are fatal and precede all effects. When the setup
\* fails the run raises, no listing, push or pull has been issued, no
\* inventory and no operation list exists and no stats are returned.
C17_SetupErrorsFatal ==
    (pc # "start" /\ SetupFails) =>
        /\ Raised /\ raised # "none"
        /\ adb_calls = NoCalls
        /\ local_files = <<>> /\ device_files = <<>> /\ operations = <<>>
        /\ stats = ZeroStats

\* A push run over a local tree with two files has raised, nothing issued,
\* because the local root is no directory although the device root exists
\* and no hook raises.
C17_Witness ==
    /\ Raised /\ raised = "local_path"
    /\ ~env.local_is_dir /\ "" \in device_dirs /\ ~env.path_resolve_raises
    /\ direction = "local_to_device"
    /\ \A p \in ComparePaths : local_fs[p] # Absent
    /\ adb_calls = NoCalls

\* C18: any failure of the device listing, an exception of the transport as
\* well as an exit code other than 0, aborts the run before reconciliation:
\* no operation list is computed and no push or pull is executed.
C18_ListingFailureAborts ==
    env.listing # "ok" =>
        /\ pc \notin {"executing", "done"}
        /\ operations = <<>>
        /\ Copies = 0

\* C19: a failing policy hook does not abort the run. No exception of
\* on_file_filter or of the conflict hook leaves sync(), and a candidate for
\* which on_file_filter raises is in the inventory of its side as if the
\* hook had accepted it.
C19_HookFailureTolerated ==
    /\ raised \notin {"on_file_filter", "on_conflict"}
    /\ BothCollected =>
          \A p \in FilterPaths :
              (/\ plugin = "custom" /\ filter_answers[p] = "raise"
               /\ local_fs[p] # Absent
               /\ ~AgeRejects(local_fs[p].mtime) /\ ~ExtRejects(p)) => LocalHas(p)

\* C20: lifecycle notifications are not gates. A run whose copy loop is over
\* returns its stats although on_sync_end raises, and an exception of
\* on_sync_error never leaves sync() in the place of the original one.
C20_NotificationsNoGates ==
    /\ raised \notin {"on_sync_end", "on_sync_error"}
    /\ (Raised /\ plugin = "custom" /\ env.sync_end_raises) => SetupFails \/ env.listing = "exception"


\* ====================================================================
\* The run as others see it: progress, signals, pre-pass, lifecycle hooks
\* ====================================================================
TraceAt(kind, names) == {j \in 1..Len(trace) : trace[j].kind = kind /\ trace[j].name \in names}
ProgressAt(i) == {j \in TraceAt("progress", {"stats_updated"}) : trace[j].idx = i}
CopyAt(i) == {j \in TraceAt("adb", {"push", "pull"}) : trace[j].idx = i}
PlanPath(i) == operations[i + 1].file_info.rel_path

\* C21: for every operation the executor has processed, the progress
\* callback was invoked exactly once, with the description of the operation,
\* its 0-based position i and the length of the plan, and after the copy
\* attempt of operation i, whether that copy succeeded or failed.
C21_ProgressAfterEachItem ==
    \A i \in 0..(idx - 1) :
       /\ Cardinality(ProgressAt(i)) = 1
       /\ \A j \in ProgressAt(i) :
             /\ trace[j].arg = operations[i + 1].op \o " " \o PlanPath(i)
             /\ trace[j].total = Len(operations)
             /\ \E k \in CopyAt(i) : k < j

Terminal == TraceAt("signal", {"finished", "error"})
ProgressEvents == TraceAt("progress", {"stats_updated"})

PrePassAt == {j \in TraceAt("adb", {"file_exists", "mkdir"}) :
                 \E l \in TraceAt("adb", {"ls"}) : l < j}
ChecksOf(d) == {j \in PrePassAt : trace[j].name = "file_exists" /\ trace[j].arg = d}
MkdirsOf(d) == {j \in PrePassAt : trace[j].name = "mkdir" /\ trace[j].arg = d}
UploadParents == {DirName(p) : p \in {q \in Paths : Uploads(q) # {}}}

\* C23: once the plan is made, every parent directory of an upload has been
\* checked for existence exactly once, was created at most once and only
\* after its check said it does not exist; no other directory is checked or
\* created; all of it precedes the first copy; an empty plan issues none.
C23_PrePass ==
    (pc \in {"executing", "done"}) =>
       /\ \A d \in {DirName(p) : p \in Paths} :
             IF d \in UploadParents
             THEN /\ Cardinality(ChecksOf(d)) = 1
                  /\ Cardinality(MkdirsOf(d)) <= 1
                  /\ \A m \in MkdirsOf(d) : \E c \in ChecksOf(d) : c < m /\ ~trace[c].ok
             ELSE ChecksOf(d) = {} /\ MkdirsOf(d) = {}
       /\ \A j \in PrePassAt :
             \A k \in ProgressEvents \cup TraceAt("adb", {"push", "pull"}) : j < k
       /\ operations = <<>> => PrePassAt = {}

\* Two uploads share the missing directory "d": one check, one mkdir; the
\* root holds an upload too and exists.
C23_Witness ==
    /\ pc = "done"
    /\ Uploads("d/c.txt") # {} /\ Uploads("d/f.txt") # {} /\ Uploads("a.txt") # {}
    /\ Cardinality(MkdirsOf("d")) = 1
    /\ MkdirsOf("") = {}

\* C24: when the recursive device listing is not empty, the device
\* inventory is built from it: it holds every file below the device root,
\* nested ones too (no filter being configured).
C24_RecursiveInventory ==
    (/\ BothCollected
     /\ include_ext = {} /\ exclude_ext = {} /\ sync_days = 0 /\ plugin = "none"
     /\ ListFilesRecursive(device_fs, TRUE, 1) # <<>>)
    => DictKeySet(device_files)
          = {ListFilesRecursive(device_fs, TRUE, 1)[i].rel_path :
                i \in 1..Len(ListFilesRecursive(device_fs, TRUE, 1))}

StartHooks == TraceAt("hook", {"on_sync_start"})

\* C28: in a run with a plugin that got as far as collecting, on_sync_start
\* was invoked exactly once, before the device listing, before every copy
\* and before on_sync_end / on_sync_error.
C28_StartHookFirst ==
    (plugin # "none" /\ TraceAt("adb", {"ls"}) # {}) =>
       /\ Cardinality(StartHooks) = 1
       /\ \A j \in StartHooks :
             \A k \in TraceAt("adb", {"ls", "push", "pull"})
                      \cup TraceAt("hook", {"on_sync_end", "on_sync_error"}) : j < k

Counted == stats.upload + stats.download + stats.error

\* C29: at every point of a run upload + download + error equals the number
\* of copies attempted so far; a copy attempt increments exactly one of the
\* three counters by one and leaves skip alone; and when the run returns
\* without having been stopped, the sum is the length of the plan.
C29_StatsConservation ==
    /\ [](/\ (pc \in {"executing", "done", "error"}) => Counted = Copies
          /\ (Returned /\ ~stop_requested) => Counted = Len(operations))
    /\ [][Copies' = Copies + 1 =>
            /\ stats'.skip = stats.skip
            /\ \E c \in {"upload", "download", "error"} :
                  stats' = [stats EXCEPT ![c] = @ + 1]]_vars

\* A run that was not stopped returns after one copy failed and one
\* succeeded.
C29_Witness ==
    /\ Returned /\ ~stop_requested
    /\ stats.error = 1
    /\ stats.upload + stats.download = 1

\* C30: the plan holds at most one operation per relative path, in every
\* direction.
C30_OneOperationPerPath ==
    Compared => \A p \in Paths : Cardinality(Uploads(p) \cup Downloads(p)) <= 1

\* A bidirectional plan with one operation for each of two paths that both
\* sides hold.
C30_Witness ==
    /\ Compared
    /\ direction = "bidirectional"
    /\ \A p \in ComparePaths : BothDiffer(p) /\ Cardinality(Uploads(p) \cup Downloads(p)) = 1

\* ====================================================================
\* The main window: one run at a time, first in first out, the device
\* ====================================================================
\* C25: under every interleaving of sync requests, auto-sync triggers,
\* completions, errors and deletions at most one SyncThread is in progress,
\* and _sync_running is true exactly while a started run has not delivered
\* its terminal event.
C25_OneRunAtATime ==
    /\ Cardinality(threads) <= 1
    /\ sync_running <=> threads # {}

\* A run has emitted error and waits for its slot while two requests wait
\* in the queue and a pipeline has been deleted.
C25_Witness ==
    /\ sync_running
    /\ \E t \in threads : t.state = "error"
    /\ Len(sync_queue) >= 2
    /\ Len(pipelines) < Len(PipelineNames)

StartedReqs == {started[i].req : i \in 1..Len(started)}

\* C26: requests are served first in first out. Runs start in the order in
\* which their requests were queued, and when the run of a request starts,
\* no request queued before it still waits: each has been started, or was
\* taken out by a pipeline deletion (out of the queue by on_delete_requested,
\* or dropped by _start_next_sync because the list has become too short
\* for its index).
C26_Fifo ==
    /\ \A i, j \in 1..Len(started) : i < j => started[i].req < started[j].req
    /\ \A b \in StartedReqs : \A a \in 1..(b - 1) :
          a \in StartedReqs \cup removed \cup skipped

\* Two runs have been started; a request queued between theirs was taken
\* out by the deletion of its pipeline.
C26_Witness ==
    /\ Len(started) = 2
    /\ \E r \in removed : started[1].req < r /\ r < started[2].req

\* C27: every adb command of a run that was started with a device selected
\* addresses that device, whatever check_device does to adb.current_device
\* in between.
C27_SerialCaptured ==
    \A t \in threads :
       t.device \in Serials => \A k \in 1..Len(t.cmds) : t.cmds[k] = t.device

\* ====================================================================
\* The closing hooks and the skip counter, checked under FaultSpec
\* ====================================================================
EndHooks == TraceAt("hook", {"on_sync_end"})
ErrorHooks == TraceAt("hook", {"on_sync_error"})

\* C32: a run with a plugin invokes exactly one closing hook: on_sync_end
\* when sync() returns its stats, on_sync_error when it raises, never both;
\* on_sync_error is not invoked for a run that processed all its operations
\* and reached on_sync_end.
C32_OneClosingHook ==
    (plugin # "none" /\ (Returned \/ Raised)) =>
       /\ Cardinality(EndHooks \cup ErrorHooks) = 1
       /\ Returned <=> EndHooks # {}
       /\ Raised <=> ErrorHooks # {}

\* The paths of the two inventories for which the plan holds no operation.
Unplanned == {p \in DictKeySet(local_files) \cup DictKeySet(device_files) : NoOperation(p)}

\* C40: the skip counter of the returned stats is the number of inventory
\* paths for which no operation was planned.
C40_SkipCounted ==
    Returned => stats.skip = Cardinality(Unplanned)

\* ====================================================================
\* The stop request, checked under StopSpec
\* ====================================================================
\* C31: a stop request is scoped to the run that was in progress when it
\* was made. A run during which stop_requested was not set (the flag was
\* set during an earlier run, which was cancelled, and has not been touched
\* since) returns only after processing all operations of its plan.
C31_StopScopedToRun ==
    (Returned /\ 0 < stop_run /\ stop_run < run) => idx = Len(operations)

\* ====================================================================
\* Device entries without a time, checked under UndatedSpec
\* ====================================================================
\* The device holds p, and ls showed it with a date that did not parse.
UndatedOnDevice(p) == device_fs[p] # Absent /\ device_fs[p].mtime = NoTime

\* C39: a device entry without mtime is left out of the device inventory
\* before any filter decision (on_file_filter is not asked about it), so
\* the comparison treats the path as absent on the device: a local file of
\* the same name is uploaded in the push and in the bidirectional
\* direction, and the entry yields no download in any direction.
C39_UndatedEntryAbsent ==
    (Compared /\ idx = 0) =>
       \A p \in ComparePaths :
          UndatedOnDevice(p) =>
             /\ ~DeviceHas(p)
             /\ \A k \in 1..Len(filter_calls) :
                   ~(filter_calls[k].side = "device" /\ filter_calls[k].rel_path = p)
             /\ Downloads(p) = {}
             /\ (LocalHas(p) /\ direction \in {"local_to_device", "bidirectional"})
                   => OneUpload(p)

\* A bidirectional plan, made with a plugin, uploads a.txt over an undated
\* device entry while the device also holds an undated b.txt that the local
\* side does not have.
C39_Witness ==
    /\ Compared /\ idx = 0
    /\ plugin = "custom"
    /\ UndatedOnDevice("a.txt") /\ LocalHas("a.txt")
    /\ UndatedOnDevice("b.txt") /\ ~LocalHas("b.txt")
    /\ direction = "bidirectional"
    /\ OneUpload("a.txt")

\* ====================================================================
\* The queue under deletions and auto-sync
\* ====================================================================
\* C33: a run started for a queued request is given the pipeline the
\* request was made for, whatever deletions happened while it waited;
\* it never runs with the configuration of another pipeline.
C33_RunsRequestedPipeline ==
    \A i \in 1..Len(started) : started[i].pipeline = started[i].requested

\* The entries put into the waiting queue by the step.
Enqueued == {k \in 1..Len(sync_queue') : sync_queue'[k].req > requests}

\* C34: under manual requests and auto-sync triggers alike, an index waits
\* in the queue at most once, and no index is put into the queue while the
\* run for that same index is in progress.
C34_NoDuplicateRequests ==
    /\ [](\A j, k \in 1..Len(sync_queue) : sync_queue[j].index = sync_queue[k].index => j = k)
    /\ [][\A k \in Enqueued :
             ~(sync_running /\ sync_thread_index = sync_queue'[k].index)]_vars

\* ====================================================================
\* The queue makes progress, checked under QueueLiveSpec
\* ====================================================================
\* The step is the slot of a terminal event: a thread that had emitted
\* finished or error is gone.
TerminalHandled == \E t \in threads : t.state \in {"finished", "error"} /\ t \notin threads'

\* The entries that wait before the step and after it neither wait nor
\* have been started.
Discarded == {k \in 1..Len(sync_queue) :
                 /\ sync_queue[k].req \notin ReqsOf(sync_queue')
                 /\ \A i \in 1..Len(started') : started'[i].req # sync_queue[k].req}

\* C35: provided every started run delivers its terminal event, every
\* request put into the queue is eventually started or discarded, and it
\* is discarded only when the pipeline it was made for is no longer in the
\* configuration; the slot of each terminal event clears _sync_running
\* and, if requests wait, starts the run of the next one, leaving the
\* window with that run in progress or with nothing waiting.
C35_QueueProgress ==
    /\ \A r \in 1..MaxRequests :
          (requests >= r) ~> (r \in StartedReqs \cup removed \cup skipped)
    /\ [][\A k \in Discarded :
             \A i \in 1..Len(pipelines') : pipelines'[i] # sync_queue[k].pipeline]_vars
    /\ [][TerminalHandled =>
            \/ /\ Len(started') = Len(started) + 1
               /\ sync_running'
               /\ \E t \in threads' : t.req = started'[Len(started')].req /\ t.state = "running"
            \/ /\ started' = started
               /\ ~sync_running'
               /\ sync_queue' = <<>>]_vars

\* ====================================================================
\* The cooldown of auto-sync, checked under CooldownSpec
\* ====================================================================
\* C36: trigger_auto_sync queues a pipeline only if its auto box is
\* checked, only in a poll that sees a device after none or after another
\* serial, and never within 1800 seconds of the time it last queued the
\* same pipeline.
C36_AutoSyncCooldown ==
    [][\A i \in DOMAIN auto_enqueued :
          auto_enqueued'[i] # auto_enqueued[i] =>
             /\ PipelineNames[i] \in AutoSyncOn
             /\ last_device_serial' \in Serials /\ last_device_serial' # last_device_serial
             /\ (auto_enqueued[i] = 0 \/
                 auto_enqueued'[i] - auto_enqueued[i] > AutoSyncCooldown)]_vars

\* ====================================================================
\* The device serial of a pipeline, checked under DeviceSpec
\* ====================================================================
\* C37: a pipeline with a device serial is only synced against the device
\* of that serial: no run is started for it, and no adb command of its run
\* is issued, while the selected device has another serial.
C37_SerialRespected ==
    \A t \in threads :
       DeviceSerial(t.pipeline) # "" =>
          /\ t.device \in Serials => t.device = DeviceSerial(t.pipeline)
          /\ \A k \in 1..Len(t.cmds) :
                t.cmds[k] \in Serials => t.cmds[k] = DeviceSerial(t.pipeline)

\* ====================================================================
\* The path checks, checked under PathCheckSpec
\* ====================================================================
RunningChecks(index) ==
    path_checks[index].stray + (IF path_checks[index].state = "running" THEN 1 ELSE 0)

\* C38: at any time at most one path-check thread is running for a
\* pipeline index, under every interleaving of status refreshes, the
\* refresh by index after a pipeline was added, and worker completions.
C38_OnePathCheckPerIndex ==
    \A index \in 0..(Len(PipelineNames) - 1) : RunningChecks(index) <= 1
====
